---- MODULE Spec2Model ----
(***************************************************************************)
(* Model of the service scheduler (Google Apps Script).                    *)
(*                                                                         *)
(* The state is the content of the sheets the scheduler reads (Roles,      *)
(* Config!B2, Couples, Blackout Dates), the Schedule sheet it writes, and  *)
(* the local variables of one run of autoPopulateSchedule (src/Email.js).  *)
(* The run is a sequential loop over the Sundays (rows) and, inside each,  *)
(* over the role columns; one action is one step of that loop.             *)
(* highlightConflicts (src/Email.js) reads the Schedule sheet and the       *)
(* Couples sheet and paints, then clears, the cell backgrounds.            *)
(***************************************************************************)
EXTENDS Integers, Sequences, FiniteSets, TLC

\* ------------------------------------------------------------------ bounds
NumVolunteers == 3       \* data rows of the Roles sheet
NumRoles == 2            \* role columns of the Roles sheet
NumDates == 3            \* Sundays returned by getSundaysForNextQuarter
MaxBlackouts == 1        \* checked boxes on the Blackout Dates sheet
MaxCoupleRows == 1       \* data rows of the Couples sheet
MaxRuns == 2             \* consecutive runs of one menu function
GridRows == 2            \* date rows of a hand-edited Schedule sheet
GridCols == 3            \* role columns of a hand-edited Schedule sheet
NumGridNames == 2        \* distinct names typed into a hand-edited Schedule sheet
NumYears == 2            \* years "today" may lie in
NumBoRows == 2           \* volunteer rows of the Blackout Dates sheet
NumBoCols == 1           \* date columns of the Blackout Dates sheet
MaxEditRows == 2         \* rows one edit (paste, fill, delete) may cover
MaxEdits == 2            \* edits made to the Blackout Dates sheet
MaxSchedRows == 2       \* date rows of the Schedule sheet
MaxCopies == 2          \* runs of copyScheduleToHistory
MaxRequests == 1        \* web app requests handled
NumCallers == 2         \* processes calling logAction at the same time
MaxPairRows == 2        \* data rows of the Couples sheet read by getCouplesMap alone
MaxTextLen == 3          \* characters of a text typed into Config!A2

NameSeq == <<"A", "B", "C", "D", "E">>
RoleSeq == <<"Lead", "Helper", "Float", "Extra">>

\* Names in column A of the Roles sheet, in row order.
Names == {NameSeq[k] : k \in 1..NumVolunteers}
\* rolesHeader: the role names of row 1 of the Roles sheet, in column order.
rolesHeader == SubSeq(RoleSeq, 1, NumRoles)
RoleIdx == 1..NumRoles
DateIdx == 1..NumDates

\* A blank cell; a JavaScript falsy string.
Blank == ""
\* lastAssignedIndex before the first assignment of a role.
Unset == -1

Range(s) == {s[k] : k \in 1..Len(s)}

\* The "NA" option of the Schedule dropdowns: the position is excused.
Excused == "NA"

\* Cell values of the Couples sheet: a name, a name with surrounding
\* white space, or a blank cell.
Padded == " A "
CoupleCells == Names \cup {Blank, Padded}

\* String.prototype.trim on the cell values above.
Trim(s) == IF s = Padded THEN "A" ELSE s

\* Keys a couples map can hold: any non-blank trimmed cell of the Couples sheet.
MapKeys == Names \cup {Excused}
NoCouples == [n \in MapKeys |-> Blank]

VARIABLES
    rolesData,          \* Roles sheet rows: <<name, checkbox_1, .., checkbox_R>>
    configFloating,     \* Config!B2: the floating role names
    couplesData,        \* Couples sheet rows: <<husband, wife>>
    blackoutData,       \* Blackout Dates sheet: the <<name, date>> cells that are TRUE
    schedule,           \* Schedule sheet: schedule[r][i] is the cell of date r, role i
    roleVolunteers,     \* role -> ordered list of qualified volunteers
    lastAssignedIndex,  \* role -> round-robin pointer
    floatingRoles,      \* result of getFloatingRoles()
    couplesMap,         \* result of getCouplesMap()
    servedLastSunday,   \* names that served on the previous Sunday
    assignedForDate,    \* names assigned on the current Sunday, in push order
    r,                  \* index of the current Sunday (1-based)
    i,                  \* index of the next role column of the current Sunday
    pc,                 \* position of the run
    scanLog,            \* history: what the scan of each processed cell did
    blackoutRows,       \* Blackout Dates sheet: the names of column A
    runNo,              \* history: number of the current run of autoPopulateSchedule
    firstRun,           \* history: grid and pointers at the end of the first run
    hcPc,               \* position of highlightConflicts
    values,             \* highlightConflicts: the cell values read from the Schedule sheet
    sameDayDup,         \* highlightConflicts: flags of pass 1
    consecWeekDup,      \* highlightConflicts: flags of pass 2
    coupleConflict,     \* highlightConflicts: flags of pass 3
    backgrounds,        \* Schedule sheet: background colour of every data cell
    hcRun,              \* history: number of the current run of highlightConflicts
    hcFirst,            \* history: grid and colours of the first run of highlightConflicts
    today,              \* calendar: year and month of new Date()
    configA2,           \* Config!A2 as parseInt sees it: the characters of String(value)
    startDate,          \* getNextQuarterRange().startDate
    endDate,            \* getNextQuarterRange().endDate
    cursor,             \* getSundaysForNextQuarter: firstSunday, then d
    sundays,            \* getSundaysForNextQuarter: the array being built
    calPc,              \* position of getSundaysForNextQuarter
    boCells,            \* Blackout Dates sheet: the values of the data cells
    boBefore,           \* history: the data cells before the pending edit
    editEv,             \* the onEdit event waiting for handleBlackoutEdit
    sessionUser,        \* Session.getActiveUser().getEmail()
    configC2,           \* Config!C2: the comma-separated items
    rolesEmail,         \* Roles sheet, last column: name -> cell text
    editCount,          \* history: number of edits made
    scheduleData,       \* Schedule sheet: its rows, header first
    historySheet,       \* Schedule History sheet: its rows
    historyExists,      \* whether the Schedule History sheet exists
    copies,             \* history: number of copyScheduleToHistory runs
    historyFirst,       \* history: Schedule History after the first run
    dateColumn,         \* Schedule sheet, column A below the header
    request,            \* the parameters of the last web app request
    response,           \* title of the page the last request returned
    mailsSent,          \* number of MailApp.sendEmail calls
    reqCount,           \* history: number of requests handled
    logRows,            \* Logs sheet: the rows below the header
    logExists,          \* whether the Logs sheet exists
    logPc,              \* position of each caller inside logAction
    hopPc,              \* position of highlightOnePerson
    hopSaved,           \* highlightOnePerson: backgrounds as read before painting
    hopRun,             \* history: number of the highlightOnePerson call
    intervalMark,       \* history: marks the web app wrote during a display interval
    intervalOf          \* history: the display interval intervalMark belongs to

schedVars == <<rolesData, configFloating, couplesData, blackoutData, schedule,
               roleVolunteers, lastAssignedIndex, floatingRoles, couplesMap,
               servedLastSunday, assignedForDate, r, i, pc, scanLog,
               blackoutRows, runNo, firstRun>>

hcVars == <<hcPc, values, sameDayDup, consecWeekDup, coupleConflict,
            backgrounds, hcRun, hcFirst>>

calVars == <<today, configA2, startDate, endDate, cursor, sundays, calPc>>

\* The state of the parts of the program other than the scheduler and
\* highlightConflicts.
editVars == <<boCells, boBefore, editEv, sessionUser, configC2, rolesEmail,
              editCount>>

histVars == <<scheduleData, historySheet, historyExists, copies, historyFirst>>

webVars == <<dateColumn, request, response, mailsSent, reqCount, logRows, logExists,
             logPc, hopPc, hopSaved, hopRun, intervalMark, intervalOf>>

auxVars == <<calVars, editVars, histVars, webVars>>

vars == <<schedVars, hcVars, auxVars>>

sheets == <<rolesData, configFloating, couplesData, blackoutData, blackoutRows>>

\* ------------------------------------------------------------ sheet content
\* Row k of the Roles sheet holds the k-th name and one checkbox per role.
RolesSheets ==
    {[k \in 1..NumVolunteers |-> <<NameSeq[k]>> \o c[k]] :
        c \in [1..NumVolunteers -> [RoleIdx -> BOOLEAN]]}

CoupleRows == CoupleCells \X CoupleCells
CouplesSheets == UNION {[1..n -> CoupleRows] : n \in 0..MaxCoupleRows}

\* The Blackout Dates sheet as refreshBlackoutDates lays it out: one row per
\* name of the Roles sheet, one column per Sunday, a checkbox in every cell.
BlackoutSheets ==
    {b \in SUBSET (Names \X DateIdx) : Cardinality(b) <= MaxBlackouts}

EmptyGrid == [d \in DateIdx |-> [c \in RoleIdx |-> Blank]]
NoScan == [done |-> FALSE, start |-> Unset, skipped |-> <<>>, index |-> Unset]
EmptyLog == [d \in DateIdx |-> [c \in RoleIdx |-> NoScan]]

\* No run recorded yet.
NoRun == [recorded |-> FALSE]

\* highlightConflicts has not been started; no cell has a background colour.
NoColor == "none"
HCIdle ==
    /\ hcPc = "idle"
    /\ values = <<>>
    /\ sameDayDup = <<>>
    /\ consecWeekDup = <<>>
    /\ coupleConflict = <<>>
    /\ backgrounds = [d \in DOMAIN schedule |-> [c \in DOMAIN schedule[d] |-> NoColor]]
    /\ hcRun = 1
    /\ hcFirst = NoRun

\* A Date not yet computed.
NoDate == [y |-> 0, m |-> 0, d |-> 0]

\* getSundaysForNextQuarter has not been called.
CalIdle ==
    /\ startDate = NoDate
    /\ endDate = NoDate
    /\ cursor = NoDate
    /\ sundays = <<>>
    /\ calPc = "idle"

\* No edit has been made yet.
NoEvent == [made |-> FALSE, pending |-> FALSE]

\* Nobody edits the Blackout Dates sheet.
EditIdle ==
    /\ boCells = <<>>
    /\ boBefore = <<>>
    /\ editEv = NoEvent
    /\ sessionUser = Blank
    /\ configC2 = <<>>
    /\ rolesEmail = <<>>
    /\ editCount = 0

\* The parts of the program other than the scheduler and highlightConflicts
\* are not running.
\* copyScheduleToHistory is not used.
HistIdle ==
    /\ scheduleData = <<>>
    /\ historySheet = <<>>
    /\ historyExists = FALSE
    /\ copies = 0
    /\ historyFirst = <<>>

\* The web app, highlightOnePerson and logAction are not used.
WebIdle ==
    /\ dateColumn = <<>>
    /\ request = [action |-> "undefined", name |-> "undefined", role |-> "undefined",
                  date |-> <<>>]
    /\ response = "none"
    /\ mailsSent = 0
    /\ reqCount = 0
    /\ logRows = <<>>
    /\ logExists = FALSE
    /\ logPc = <<>>
    /\ hopPc = "idle"
    /\ hopSaved = <<>>
    /\ hopRun = 1
    /\ intervalMark = <<>>
    /\ intervalOf = <<>>

AuxIdle ==
    /\ today = [year |-> 0, month |-> 1]
    /\ configA2 = <<>>
    /\ CalIdle
    /\ EditIdle
    /\ HistIdle
    /\ WebIdle

Init ==
    /\ rolesData \in RolesSheets
    /\ configFloating \in SUBSET Range(rolesHeader)
    /\ couplesData \in CouplesSheets
    /\ blackoutData \in BlackoutSheets
    /\ schedule = EmptyGrid
    /\ roleVolunteers = [role \in Range(rolesHeader) |-> <<>>]
    /\ lastAssignedIndex = [role \in Range(rolesHeader) |-> Unset]
    /\ floatingRoles = {}
    /\ couplesMap = NoCouples
    /\ servedLastSunday = {}
    /\ assignedForDate = <<>>
    /\ r = 1
    /\ i = 1
    /\ pc = "idle"
    /\ scanLog = EmptyLog
    /\ blackoutRows = Names
    /\ runNo = 1
    /\ firstRun = NoRun
    /\ HCIdle
    /\ AuxIdle

\* ------------------------------------------------- autoPopulateSchedule
\* Mutation of Ticked: every row of the Roles sheet counts for every role.
Ticked_Always(row, c) == TRUE

\* Line 725: row[i + 1] === true.
Ticked(row, c) == row[c + 1] = TRUE

\* roleVolunteers[role]: the names of the rows whose checkbox of that role
\* column is TRUE, in row order (c is the 1-based role column).
RoleVolunteersOf(data, c) ==
    LET picked == SelectSeq(data, LAMBDA row : Ticked(row, c))
    IN  [k \in 1..Len(picked) |-> picked[k][1]]

ColumnOf(role) == CHOOSE c \in RoleIdx : rolesHeader[c] = role

\* getFloatingRoles(): the entries of Config!B2.
getFloatingRoles == configFloating

\* getCouplesMap(): rows are read top to bottom; a row with both names
\* non-blank (after trim) writes map[husband] = wife, then map[wife] = husband.
\* A name without entry maps to Blank (undefined in the source).
RECURSIVE CouplesFold(_, _, _)
CouplesFold(data, k, map) ==
    IF k > Len(data) THEN map
    ELSE LET husband == Trim(data[k][1])
             wife == Trim(data[k][2])
             m1 == [map EXCEPT ![husband] = wife]
             m2 == [m1 EXCEPT ![wife] = husband]
         IN  IF husband # Blank /\ wife # Blank
             THEN CouplesFold(data, k + 1, m2)
             ELSE CouplesFold(data, k + 1, map)

getCouplesMap == CouplesFold(couplesData, 1, NoCouples)

\* Mutation of InitialPointer: the pointer left by the previous run is kept.
InitialPointer_Carried(role) == lastAssignedIndex[role]

\* Lines 795-798: the pointer every role starts a run with.
InitialPointer(role) == Unset

\* Mutation of InitialServed: last run's final Sunday still counts as served.
InitialServed_Carried == servedLastSunday

\* Line 806: nobody served before the first Sunday of a run.
InitialServed == {}

\* Lines 675-806: clear the Schedule sheet, read the sheets, reset the
\* pointers, and enter the loop over the Sundays.
RunSetup ==
    /\ schedule' = EmptyGrid
    /\ roleVolunteers' =
         [role \in Range(rolesHeader) |-> RoleVolunteersOf(rolesData, ColumnOf(role))]
    /\ lastAssignedIndex' = [role \in Range(rolesHeader) |-> InitialPointer(role)]
    /\ floatingRoles' = getFloatingRoles
    /\ couplesMap' = getCouplesMap
    /\ servedLastSunday' = InitialServed
    /\ assignedForDate' = <<>>
    /\ r' = 1
    /\ i' = 1
    /\ pc' = "roles"
    /\ UNCHANGED <<sheets, hcVars, auxVars>>

\* The first run of autoPopulateSchedule.
Setup ==
    /\ pc = "idle"
    /\ RunSetup
    /\ UNCHANGED <<scanLog, runNo, firstRun>>

\* autoPopulateSchedule is run again on the same sheets: the same setup, from
\* the state the previous run left behind.
Rerun ==
    /\ pc = "done"
    /\ runNo < MaxRuns
    /\ RunSetup
    /\ scanLog' = EmptyLog
    /\ runNo' = runNo + 1
    /\ firstRun' = IF firstRun.recorded THEN firstRun
                   ELSE [recorded |-> TRUE, grid |-> schedule,
                         pointers |-> lastAssignedIndex, log |-> scanLog]

\* Mutation of AlreadyAssigned: the same-date check is left out.
AlreadyAssigned_Dropped(role, volName) == FALSE

\* Mutation of AlreadyAssigned: floating roles are not exempt.
AlreadyAssigned_AlsoFloating(role, volName) == volName \in Range(assignedForDate)

\* 1) the role is not floating and the volunteer is already in assignedForDate.
AlreadyAssigned(role, volName) ==
    /\ role \notin floatingRoles
    /\ volName \in Range(assignedForDate)

\* Mutation of ServedLast: the previous Sunday is not consulted.
ServedLast_Dropped(volName) == FALSE

\* 2) the volunteer served on the previous Sunday.
ServedLast(volName) == volName \in servedLastSunday

\* Mutation of SpouseServing: the spouse is looked up among last Sunday's names.
SpouseServing_WrongSet(volName) ==
    LET spouse == couplesMap[volName]
    IN  spouse # Blank /\ spouse \in servedLastSunday

\* 3) the volunteer's spouse is already in assignedForDate.
SpouseServing(volName) ==
    LET spouse == couplesMap[volName]
    IN  spouse # Blank /\ spouse \in Range(assignedForDate)

\* Mutation of IsBlackout: the column right of the Sunday's column is read.
IsBlackout_NextColumn(volName, date) ==
    /\ volName \in blackoutRows
    /\ <<volName, date + 1>> \in blackoutData

\* Mutation of IsBlackout: a volunteer without a row counts as blacked out.
IsBlackout_UnknownUnavailable(volName, date) ==
    volName \notin blackoutRows \/ <<volName, date>> \in blackoutData

\* 4) the volunteer has a row on the Blackout Dates sheet and the checkbox
\* for this Sunday is TRUE.
IsBlackout(volName, date) ==
    /\ volName \in blackoutRows
    /\ <<volName, date>> \in blackoutData

\* The first check of the loop body that rejects the volunteer (0: none).
RejectRule(role, volName, date) ==
    IF AlreadyAssigned(role, volName) THEN 1
    ELSE IF ServedLast(volName) THEN 2
    ELSE IF SpouseServing(volName) THEN 3
    ELSE IF IsBlackout(volName, date) THEN 4
    ELSE 0

\* Mutation of StartIndex: the scan starts at the pointer itself, not after it.
StartIndex_NoAdvance(role, n) ==
    IF lastAssignedIndex[role] = Unset THEN 0 ELSE lastAssignedIndex[role] % n

\* Mutation of StartIndex: the wrap-around is taken one index too early.
StartIndex_EarlyWrap(role, n) ==
    IF n > 1 THEN (lastAssignedIndex[role] + 1) % (n - 1) ELSE 0

\* startIndex of the scan (0-based), for a role with n > 0 volunteers.
StartIndex(role, n) == (lastAssignedIndex[role] + 1) % n

\* Mutation of PickedPointer: the pointer is not moved by an assignment.
PickedPointer_Stale(role, index) == lastAssignedIndex[role]

\* Mutation of PickedPointer: the 1-based position is stored.
PickedPointer_OneBased(role, index) == index + 1

\* The pointer written when the volunteer at `index` is picked.
PickedPointer(role, index) == index

\* Mutation of UnpickedPointer: the last rejected candidate moves the pointer.
UnpickedPointer_LastTried(role, lastTried) == lastTried

\* Lines 831-866 when every candidate took a continue: line 863 is never
\* reached, so the pointer of the role keeps its value.
UnpickedPointer(role, lastTried) == lastAssignedIndex[role]

\* The for loop over k: the first volunteer from startIndex on, wrapping, that
\* no check rejects.  candidate = Blank stands for null.
RECURSIVE ScanLoop(_, _, _, _, _)
ScanLoop(role, date, startIndex, k, skipped) ==
    LET volunteers == roleVolunteers[role]
        n == Len(volunteers)
    IN  IF k >= n
        THEN [candidate |-> Blank,
              pointer |-> UnpickedPointer(role, (startIndex + n - 1) % n),
              index |-> Unset, skipped |-> skipped]
        ELSE LET index == (startIndex + k) % n
                 volName == volunteers[index + 1]
                 rule == RejectRule(role, volName, date)
             IN  IF rule # 0
                 THEN ScanLoop(role, date, startIndex, k + 1,
                               Append(skipped, <<index, rule>>))
                 ELSE [candidate |-> volName, pointer |-> PickedPointer(role, index),
                       index |-> index, skipped |-> skipped]

\* Mutation of PushAssigned: the holder of a floating role is not recorded.
PushAssigned_NonFloatingOnly(role, candidate) ==
    IF candidate # Blank /\ role \notin floatingRoles
    THEN Append(assignedForDate, candidate)
    ELSE assignedForDate

\* Lines 868-871: whoever was assigned, to any role, joins assignedForDate.
PushAssigned(role, candidate) ==
    IF candidate # Blank
    THEN Append(assignedForDate, candidate)
    ELSE assignedForDate

\* One call of the rolesHeader.forEach callback: fill the cell of date r, role i.
AssignRole ==
    /\ pc = "roles"
    /\ LET role == rolesHeader[i]
           n == Len(roleVolunteers[role])
           start == IF n > 0 THEN StartIndex(role, n) ELSE Unset
           res == IF n > 0
                  THEN ScanLoop(role, r, start, 0, <<>>)
                  ELSE [candidate |-> Blank, pointer |-> lastAssignedIndex[role],
                        index |-> Unset, skipped |-> <<>>]
       IN  /\ lastAssignedIndex' = [lastAssignedIndex EXCEPT ![role] = res.pointer]
           /\ assignedForDate' = PushAssigned(role, res.candidate)
           /\ schedule' = [schedule EXCEPT ![r][i] = res.candidate]
           /\ scanLog' = [scanLog EXCEPT ![r][i] =
                            [done |-> TRUE, start |-> start,
                             skipped |-> res.skipped, index |-> res.index]]
    /\ i' = i + 1
    /\ pc' = IF i = NumRoles THEN "endDate" ELSE "roles"
    /\ UNCHANGED <<sheets, roleVolunteers, floatingRoles, couplesMap,
                   servedLastSunday, r, runNo, firstRun, hcVars, auxVars>>

\* Mutation of LoopContinues: the loop over the Sundays stops one row early.
LoopContinues_StopsEarly(row) == row < NumDates - 1

\* The loop test r < sundays.length, for the row just finished (1-based).
LoopContinues(row) == row < NumDates

\* Mutation of NextServed: the names of earlier Sundays are kept as well.
NextServed_Accumulated(assigned) == servedLastSunday \cup Range(assigned)

\* Lines 878-882: a fresh servedLastSunday holding this Sunday's names.
NextServed(assigned) == Range(assigned)

\* Lines 878-882 and the loop header: servedLastSunday is replaced by the
\* names assigned on this Sunday; the next Sunday starts with an empty
\* assignedForDate.
EndDate ==
    /\ pc = "endDate"
    /\ servedLastSunday' = NextServed(assignedForDate)
    /\ r' = r + 1
    /\ IF LoopContinues(r)
       THEN /\ assignedForDate' = <<>>
            /\ i' = 1
            /\ pc' = "roles"
       ELSE /\ pc' = "done"
            /\ UNCHANGED <<assignedForDate, i>>
    /\ UNCHANGED <<sheets, schedule, roleVolunteers, lastAssignedIndex,
                   floatingRoles, couplesMap, scanLog, runNo, firstRun, hcVars,
                   auxVars>>

Next == Setup \/ AssignRole \/ EndDate

Spec == Init /\ [][Next]_vars

\* Two runs in a row on unchanged sheets (Couples rows of two plain names).
InitRerun ==
    /\ Init
    /\ \A k \in 1..Len(couplesData) : couplesData[k] \in Names \X Names

NextRerun == Setup \/ AssignRole \/ EndDate \/ Rerun

SpecRerun == InitRerun /\ [][NextRerun]_vars

\* One run on sheets where the Blackout Dates sheet may lack the row of a
\* volunteer of the Roles sheet (blackoutRows: the names that have a row).
InitLoose ==
    /\ rolesData \in RolesSheets
    /\ configFloating \in SUBSET Range(rolesHeader)
    /\ couplesData = <<>>
    /\ blackoutRows \in SUBSET Names
    /\ blackoutData \in {b \in BlackoutSheets : \A e \in b : e[1] \in blackoutRows}
    /\ schedule = EmptyGrid
    /\ roleVolunteers = [role \in Range(rolesHeader) |-> <<>>]
    /\ lastAssignedIndex = [role \in Range(rolesHeader) |-> Unset]
    /\ floatingRoles = {}
    /\ couplesMap = NoCouples
    /\ servedLastSunday = {}
    /\ assignedForDate = <<>>
    /\ r = 1
    /\ i = 1
    /\ pc = "idle"
    /\ scanLog = EmptyLog
    /\ runNo = 1
    /\ firstRun = NoRun
    /\ HCIdle
    /\ AuxIdle

SpecLoose == InitLoose /\ [][Next]_vars

\* One run under fair scheduling: the script keeps executing until it returns.
SpecLive == InitRerun /\ [][Next]_vars /\ WF_vars(Next)

TypeOK ==
    /\ pc \in {"idle", "roles", "endDate", "done"}
    /\ r \in 1..(NumDates + 1)
    /\ i \in 1..(NumRoles + 1)
    /\ \A d \in DateIdx : \A c \in RoleIdx : schedule[d][c] \in Names \cup {Blank}
    /\ servedLastSunday \subseteq Names
    /\ Range(assignedForDate) \subseteq Names

\* ---------------------------------------------------- highlightConflicts
\* Names an edited Schedule grid may hold, and the cells of such a grid.
GridNames == {NameSeq[k] : k \in 1..NumGridNames}
GridCells == GridNames \cup {Blank, Excused}
Grids == [1..GridRows -> [1..GridCols -> GridCells]]

\* Background colours of lines 1133, 1136 and 1139.
Red == "#FFCCCC"
Yellow == "#FFF2CC"
Blue == "#CCE5FF"

\* The Schedule sheet as a user may have edited it, and a Couples sheet whose
\* cells hold a name or "NA"; the scheduler is not running.
InitClassify ==
    /\ rolesData = CHOOSE data \in RolesSheets : TRUE
    /\ configFloating = {}
    /\ couplesData \in
          UNION {[1..n -> (GridNames \cup {Excused}) \X (GridNames \cup {Excused})] :
                    n \in 0..MaxCoupleRows}
    /\ blackoutData = {}
    /\ blackoutRows = Names
    /\ schedule \in Grids
    /\ roleVolunteers = [role \in Range(rolesHeader) |-> <<>>]
    /\ lastAssignedIndex = [role \in Range(rolesHeader) |-> Unset]
    /\ floatingRoles = {}
    /\ couplesMap = NoCouples
    /\ servedLastSunday = {}
    /\ assignedForDate = <<>>
    /\ r = 1
    /\ i = 1
    /\ pc = "done"
    /\ scanLog = EmptyLog
    /\ runNo = 1
    /\ firstRun = NoRun
    /\ HCIdle
    /\ AuxIdle

\* namesNow / namesNext / rowNames: the names of a row, "" and "NA" left out.
RowNames(vals, row) == {vals[row][c] : c \in 1..Len(vals[row])} \ {Blank, Excused}

\* Mutation of CountOf: "NA" cells are counted like names.
CountOf_WithExcused(vals, row, name) ==
    IF name = Blank THEN 0
    ELSE Cardinality({c \in 1..Len(vals[row]) : vals[row][c] = name})

\* counts[name] of lines 1038-1046 (0 where the code leaves it undefined).
CountOf(vals, row, name) ==
    IF name = Blank \/ name = Excused THEN 0
    ELSE Cardinality({c \in 1..Len(vals[row]) : vals[row][c] = name})

\* Lines 1047-1053: sameDayDup[row][col].
SameDayMark(vals, row, col) ==
    LET name == vals[row][col]
    IN  name # Blank /\ CountOf(vals, row, name) > 1

\* Mutation of PairMarks: only the cells of the first row of the pair are marked.
PairMarks_NowOnly(vals, row) ==
    LET common == RowNames(vals, row) \cap RowNames(vals, row + 1)
    IN  {<<row, c>> : c \in {c \in 1..Len(vals[row]) : vals[row][c] \in common}}

\* Lines 1058-1094, one iteration: the cells marked for rows row and row + 1.
PairMarks(vals, row) ==
    LET common == RowNames(vals, row) \cap RowNames(vals, row + 1)
    IN  {<<row, c>> : c \in {c \in 1..Len(vals[row]) : vals[row][c] \in common}}
        \cup {<<row + 1, c>> :
                c \in {c \in 1..Len(vals[row + 1]) : vals[row + 1][c] \in common}}

\* Mutation of ConsecMark: rows two weeks apart are compared as well.
ConsecMark_TwoApart(vals, row, col) ==
    \/ \E p \in 1..(Len(vals) - 1) : <<row, col>> \in PairMarks(vals, p)
    \/ \E p \in 1..Len(vals) :
          /\ p # row
          /\ (p - row) \in {2, 0 - 2}
          /\ vals[row][col] \in RowNames(vals, p)

\* Lines 1056-1095: consecWeekDup[row][col].
ConsecMark(vals, row, col) ==
    \E p \in 1..(Len(vals) - 1) : <<row, col>> \in PairMarks(vals, p)

\* Lines 1113-1122: coupleConflict[row][col]; only a blank cell is skipped.
CoupleMark(vals, map, row, col) ==
    LET name == vals[row][col]
    IN  /\ name # Blank
        /\ map[name] # Blank
        /\ map[name] \in RowNames(vals, row)

\* Mutation of ColorOf: the consecutive-week colour is applied last.
ColorOf_ConsecLast(same, consec, couple) ==
    LET c1 == IF same THEN Red ELSE NoColor
        c2 == IF couple THEN Blue ELSE c1
    IN  IF consec THEN Yellow ELSE c2

\* Lines 1130-1141: the colour of a cell, the later assignment winning.
ColorOf(same, consec, couple) ==
    LET c1 == IF same THEN Red ELSE NoColor
        c2 == IF consec THEN Yellow ELSE c1
    IN  IF couple THEN Blue ELSE c2

\* Mutation of ValuesAfterPaint: the colours are written as cell values.
ValuesAfterPaint_Overwritten(grid, colors) == colors

\* Line 1147: setBackgrounds changes backgrounds only; the values stay.
ValuesAfterPaint(grid, colors) == grid

\* Lines 1003-1123: read the grid, clear the backgrounds, compute the flags.
HC_Detect ==
    /\ \/ hcPc = "idle" /\ hcRun' = hcRun
       \/ hcPc = "restored" /\ hcRun < MaxRuns /\ hcRun' = hcRun + 1
    /\ Len(schedule) >= 1
    /\ Len(schedule[1]) >= 1
    /\ values' = schedule
    /\ backgrounds' = [d \in DOMAIN schedule |-> [c \in DOMAIN schedule[d] |-> NoColor]]
    /\ sameDayDup' = [d \in DOMAIN schedule |-> [c \in DOMAIN schedule[d] |->
                         SameDayMark(schedule, d, c)]]
    /\ consecWeekDup' = [d \in DOMAIN schedule |-> [c \in DOMAIN schedule[d] |->
                            ConsecMark(schedule, d, c)]]
    /\ couplesMap' = getCouplesMap
    /\ coupleConflict' = [d \in DOMAIN schedule |-> [c \in DOMAIN schedule[d] |->
                             CoupleMark(schedule, getCouplesMap, d, c)]]
    /\ hcPc' = "detected"
    /\ UNCHANGED <<sheets, schedule, roleVolunteers, lastAssignedIndex,
                   floatingRoles, servedLastSunday, assignedForDate, r, i, pc,
                   scanLog, runNo, firstRun, hcFirst, auxVars>>

\* Lines 1125-1148: build the colours and set them on the range.
HC_Paint ==
    /\ hcPc = "detected"
    /\ LET colors == [d \in DOMAIN values |-> [c \in DOMAIN values[d] |->
                        ColorOf(sameDayDup[d][c], consecWeekDup[d][c],
                                coupleConflict[d][c])]]
       IN  /\ backgrounds' = colors
           /\ schedule' = ValuesAfterPaint(schedule, colors)
    /\ hcPc' = "painted"
    /\ UNCHANGED <<sheets, roleVolunteers, lastAssignedIndex, floatingRoles,
                   couplesMap, servedLastSunday, assignedForDate, r, i, pc,
                   scanLog, runNo, firstRun, values, sameDayDup, consecWeekDup,
                   coupleConflict, hcRun, hcFirst, auxVars>>

\* Mutation of ClearedBackgrounds: only the conflict colours are removed.
ClearedBackgrounds_ConflictOnly ==
    [d \in DOMAIN schedule |-> [c \in DOMAIN schedule[d] |->
        IF backgrounds[d][c] \in {Red, Yellow, Blue} THEN NoColor
        ELSE backgrounds[d][c]]]

\* Line 1153: range.setBackground(null) on the whole data range.
ClearedBackgrounds ==
    [d \in DOMAIN schedule |-> [c \in DOMAIN schedule[d] |-> NoColor]]

\* Lines 1150-1154: after the pause the backgrounds are removed again.
HC_Restore ==
    /\ hcPc = "painted"
    /\ backgrounds' = ClearedBackgrounds
    /\ hcFirst' = IF hcFirst.recorded THEN hcFirst
                  ELSE [recorded |-> TRUE, grid |-> values, same |-> sameDayDup,
                        consec |-> consecWeekDup, couple |-> coupleConflict,
                        colors |-> backgrounds]
    /\ hcPc' = "restored"
    /\ UNCHANGED <<schedVars, values, sameDayDup, consecWeekDup, coupleConflict,
                   hcRun, auxVars>>

NextClassify == HC_Detect \/ HC_Paint \/ HC_Restore

SpecClassify == InitClassify /\ [][NextClassify]_vars

\* --------------------------------------------------------- getCouplesMap
\* A Couples sheet of any content, before a caller reads it.
InitCouples ==
    /\ rolesData = CHOOSE data \in RolesSheets : TRUE
    /\ configFloating = {}
    /\ couplesData \in UNION {[1..n -> CoupleRows] : n \in 0..MaxPairRows}
    /\ blackoutData = {}
    /\ blackoutRows = Names
    /\ schedule = EmptyGrid
    /\ roleVolunteers = [role \in Range(rolesHeader) |-> <<>>]
    /\ lastAssignedIndex = [role \in Range(rolesHeader) |-> Unset]
    /\ floatingRoles = {}
    /\ couplesMap = NoCouples
    /\ servedLastSunday = {}
    /\ assignedForDate = <<>>
    /\ r = 1
    /\ i = 1
    /\ pc = "idle"
    /\ scanLog = EmptyLog
    /\ runNo = 1
    /\ firstRun = NoRun
    /\ HCIdle
    /\ AuxIdle

\* A caller's var couplesMap = getCouplesMap().
ReadCouples ==
    /\ pc = "idle"
    /\ couplesMap' = getCouplesMap
    /\ pc' = "done"
    /\ UNCHANGED <<sheets, schedule, roleVolunteers, lastAssignedIndex,
                   floatingRoles, servedLastSunday, assignedForDate, r, i,
                   scanLog, runNo, firstRun, hcVars, auxVars>>

SpecCouples == InitCouples /\ [][ReadCouples]_vars

\* highlightConflicts is run on the grid a finished scheduler run left.
NextAgree == Next \/ (pc = "done" /\ NextClassify)

SpecAgree == Init /\ [][NextAgree]_vars

\* ------------------------------------------- getSundaysForNextQuarter
\* The scheduler and highlightConflicts are not running; their sheets are in
\* a fixed state.
SchedulerAtRest ==
    /\ rolesData = CHOOSE data \in RolesSheets : TRUE
    /\ configFloating = {}
    /\ couplesData = <<>>
    /\ blackoutData = {}
    /\ blackoutRows = Names
    /\ schedule = EmptyGrid
    /\ roleVolunteers = [role \in Range(rolesHeader) |-> <<>>]
    /\ lastAssignedIndex = [role \in Range(rolesHeader) |-> Unset]
    /\ floatingRoles = {}
    /\ couplesMap = NoCouples
    /\ servedLastSunday = {}
    /\ assignedForDate = <<>>
    /\ r = 1
    /\ i = 1
    /\ pc = "done"
    /\ scanLog = EmptyLog
    /\ runNo = 1
    /\ firstRun = NoRun
    /\ HCIdle

\* Years "today" is drawn from; 1 January of BaseYear is a Sunday (getDay 0).
BaseYear == 2023
BaseWeekday == 0
Years == BaseYear..(BaseYear + NumYears - 1)
Months == 1..12

Digits == <<"0", "1", "2", "3", "4", "5", "6", "7", "8", "9">>
IsDigit(ch) == \E k \in 1..10 : Digits[k] = ch
DigitVal(ch) == (CHOOSE k \in 1..10 : Digits[k] = ch) - 1

\* The characters of String(n) for a month number n.
DecimalText(n) ==
    IF n < 10 THEN <<Digits[n + 1]>>
    ELSE <<Digits[(n \div 10) + 1], Digits[(n % 10) + 1]>>

\* What Config!A2 may hold, as the characters of String(value): a month
\* number, or any short text over a few characters (empty included).
CellChars == {"0", "1", "2", "a", ".", " ", "-"}
ConfigCells ==
    {DecimalText(m) : m \in Months}
        \cup UNION {[1..n -> CellChars] : n \in 0..MaxTextLen}

\* parseInt(raw, 10): skip leading blanks, read an optional sign and the
\* longest run of decimal digits; NaN if there is no digit.
NaN == [nan |-> TRUE, val |-> 0]

RECURSIVE SkipSpaces(_, _)
SkipSpaces(chars, k) ==
    IF k <= Len(chars) /\ chars[k] = " " THEN SkipSpaces(chars, k + 1) ELSE k

RECURSIVE ReadDigits(_, _, _)
ReadDigits(chars, k, acc) ==
    IF k <= Len(chars) /\ IsDigit(chars[k])
    THEN ReadDigits(chars, k + 1,
                    [n |-> acc.n + 1, val |-> acc.val * 10 + DigitVal(chars[k])])
    ELSE acc

parseInt(chars) ==
    LET k0 == SkipSpaces(chars, 1)
        neg == k0 <= Len(chars) /\ chars[k0] = "-"
        res == ReadDigits(chars, IF neg THEN k0 + 1 ELSE k0, [n |-> 0, val |-> 0])
    IN  IF res.n = 0 THEN NaN
        ELSE [nan |-> FALSE, val |-> IF neg THEN 0 - res.val ELSE res.val]

\* Lines 20-24: q1Start.
Q1Start(raw) ==
    LET q == parseInt(raw)
    IN  IF q.nan \/ q.val < 1 \/ q.val > 12 THEN 1 ELSE q.val

IsLeap(y) == (y % 4 = 0 /\ y % 100 # 0) \/ y % 400 = 0
DaysInMonth(y, m) ==
    IF m = 2 THEN (IF IsLeap(y) THEN 29 ELSE 28)
    ELSE IF m \in {4, 6, 9, 11} THEN 30 ELSE 31

\* new Date(y, monthIndex, day) for monthIndex 0..12 and day 0 or 1: month
\* index 12 is January of the next year, day 0 the last day of the month
\* before.
NewDate(y, monthIndex, day) ==
    LET yy == y + (monthIndex \div 12)
        mm == (monthIndex % 12) + 1
        py == IF mm = 1 THEN yy - 1 ELSE yy
        pm == IF mm = 1 THEN 12 ELSE mm - 1
    IN  IF day >= 1 THEN [y |-> yy, m |-> mm, d |-> day]
        ELSE [y |-> py, m |-> pm, d |-> DaysInMonth(py, pm)]

\* date.setDate(date.getDate() + k), for k up to a week.
AddDays(date, k) ==
    LET len == DaysInMonth(date.y, date.m)
    IN  IF date.d + k <= len THEN [date EXCEPT !.d = date.d + k]
        ELSE IF date.m = 12 THEN [y |-> date.y + 1, m |-> 1, d |-> date.d + k - len]
        ELSE [y |-> date.y, m |-> date.m + 1, d |-> date.d + k - len]

RECURSIVE DaysBeforeYear(_)
DaysBeforeYear(y) ==
    IF y <= BaseYear THEN 0
    ELSE DaysBeforeYear(y - 1) + (IF IsLeap(y - 1) THEN 366 ELSE 365)

RECURSIVE DaysBeforeMonth(_, _)
DaysBeforeMonth(y, m) ==
    IF m <= 1 THEN 0 ELSE DaysBeforeMonth(y, m - 1) + DaysInMonth(y, m - 1)

\* The time value of a Date, in days since 1 January of BaseYear.
DayNumber(date) == DaysBeforeYear(date.y) + DaysBeforeMonth(date.y, date.m) + date.d - 1

\* date.getDay(): 0 is Sunday.
getDay(date) == (BaseWeekday + DayNumber(date)) % 7

\* Lines 27-29: index of the quarter after the one currentMonth lies in.
NextQ(currentMonth, q1Start) ==
    LET offset == (currentMonth - q1Start + 12) % 12
        currentQ == offset \div 3
    IN  (currentQ + 1) % 4

\* Line 32.
StartMonthRaw(q1Start, nextQ) == (q1Start - 1) + nextQ * 3

\* Mutation of EndMonthRaw: the quarter ends a month early.
EndMonthRaw_MonthShort(startMonthRaw) == startMonthRaw + 1

\* Line 38.
EndMonthRaw(startMonthRaw) == startMonthRaw + 2

\* Lines 26-43 for a given q1Start.
QuarterRange(now, q1Start) ==
    LET startMonthRaw == StartMonthRaw(q1Start, NextQ(now.month, q1Start))
        startYear == now.year + (startMonthRaw \div 12)
        startMonth == (startMonthRaw % 12) + 1
        endMonthRaw == EndMonthRaw(startMonthRaw)
        endYear == now.year + (endMonthRaw \div 12)
        endMonth == (endMonthRaw % 12) + 1
    IN  [startDate |-> NewDate(startYear, startMonth - 1, 1),
         endDate |-> NewDate(endYear, endMonth, 0)]

getNextQuarterRange == QuarterRange(today, Q1Start(configA2))

InitCal ==
    /\ SchedulerAtRest
    /\ today \in [year : Years, month : Months]
    /\ configA2 \in ConfigCells
    /\ CalIdle
    /\ EditIdle
    /\ HistIdle
    /\ WebIdle

\* Lines 52-57: the range is computed; firstSunday starts as a copy of
\* startDate.
CalRange ==
    /\ calPc = "idle"
    /\ startDate' = getNextQuarterRange.startDate
    /\ endDate' = getNextQuarterRange.endDate
    /\ cursor' = getNextQuarterRange.startDate
    /\ calPc' = "seek"
    /\ UNCHANGED <<schedVars, hcVars, today, configA2, sundays, editVars, histVars, webVars>>

\* Lines 58-60: one test of the while loop, and one day forward if it is not
\* a Sunday.
CalSeek ==
    /\ calPc = "seek"
    /\ IF getDay(cursor) # 0
       THEN cursor' = AddDays(cursor, 1) /\ calPc' = "seek"
       ELSE cursor' = cursor /\ calPc' = "push"
    /\ UNCHANGED <<schedVars, hcVars, today, configA2, startDate, endDate, sundays,
                   editVars, histVars, webVars>>

\* Mutation of InRange: the last day of the quarter is excluded.
InRange_Exclusive(date, last) == DayNumber(date) < DayNumber(last)

\* Line 63: d <= endDate.
InRange(date, last) == DayNumber(date) <= DayNumber(last)

\* Lines 63-65: one test of the for loop; a Sunday in range is pushed and d
\* moves a week on, otherwise the array is returned.
CalPush ==
    /\ calPc = "push"
    /\ IF InRange(cursor, endDate)
       THEN /\ sundays' = Append(sundays, cursor)
            /\ cursor' = AddDays(cursor, 7)
            /\ calPc' = "push"
       ELSE /\ calPc' = "done"
            /\ UNCHANGED <<sundays, cursor>>
    /\ UNCHANGED <<schedVars, hcVars, today, configA2, startDate, endDate, editVars,
                   histVars, webVars>>

NextCal == CalRange \/ CalSeek \/ CalPush

SpecCal == InitCal /\ [][NextCal]_vars

\* ------------------------------------------------------ handleBlackoutEdit
\* Sheet rows 2.. hold the volunteers, sheet columns 2.. the dates; boCells is
\* indexed from 1 for sheet row 2 and sheet column 2.
BoNameOf(row) == IF row - 1 \in 1..NumBoRows THEN NameSeq[row - 1] ELSE Blank
BoNames == {NameSeq[k] : k \in 1..NumBoRows}
Checked == "TRUE"
Unchecked == "FALSE"
Undefined == "undefined"

\* toLowerCase().trim() on the e-mail texts that occur.
LowerTrim(s) ==
    CASE s = " A@x" -> "a@x"
      [] s = "Adm@x" -> "adm@x"
      [] s = " Adm@x " -> "adm@x"
      [] OTHER -> s

\* E-mail texts of the last column of the Roles sheet, of the session, and
\* of the comma-separated items of Config!C2.
RoleEmailCells == {Blank, " A@x", "b@x"}
SessionEmails == {Blank, "a@x", "b@x", "c@x", "Adm@x"}
AdminCells == {<<>>, <<" Adm@x ", Blank>>}

\* Lines 171-187: the items of Config!C2, trimmed, lower-cased, empty ones
\* dropped.
getAdminEmails ==
    {LowerTrim(configC2[k]) : k \in 1..Len(configC2)} \ {Blank}

\* Lines 137-160: name -> lower-cased e-mail, for rows that have both.
getVolunteerEmailMap ==
    [name \in BoNames |-> LowerTrim(rolesEmail[name])]

\* The sheet rows of the edited range that are data rows.
EditedDataRows(ev) ==
    {row \in ev.row..(ev.row + ev.numRows - 1) : row >= 2}

InitEdit ==
    /\ SchedulerAtRest
    /\ today = [year |-> 0, month |-> 1]
    /\ configA2 = <<>>
    /\ CalIdle
    /\ HistIdle
    /\ WebIdle
    /\ boCells \in [1..NumBoRows -> [1..NumBoCols -> {Checked, Unchecked}]]
    /\ boBefore = boCells
    /\ editEv = NoEvent
    /\ sessionUser \in SessionEmails
    /\ configC2 \in AdminCells
    /\ rolesEmail \in [BoNames -> RoleEmailCells]
    /\ editCount = 0

\* The session's user edits a range of one column: the cells take the new
\* value and the onEdit trigger is fired with the range; e.oldValue is set
\* only for a single cell that had content.
UserEdit ==
    /\ ~editEv.pending
    /\ editCount < MaxEdits
    /\ \E sheetName \in {"Blackout Dates", "Schedule"} :
       \E row \in 1..(NumBoRows + 1) : \E col \in 1..(NumBoCols + 1) :
       \E numRows \in 1..MaxEditRows : \E newValue \in {Checked, Unchecked} :
          /\ row + numRows - 1 <= NumBoRows + 1
          /\ LET onData == sheetName = "Blackout Dates" /\ col >= 2
                 rows == {rw \in row..(row + numRows - 1) : rw >= 2}
                 old == IF onData /\ numRows = 1 /\ row >= 2
                           /\ boCells[row - 1][col - 1] # Blank
                        THEN boCells[row - 1][col - 1]
                        ELSE Undefined
             IN  /\ boCells' = IF onData
                               THEN [rw \in 1..NumBoRows |-> [cl \in 1..NumBoCols |->
                                        IF rw + 1 \in rows /\ cl + 1 = col
                                        THEN newValue ELSE boCells[rw][cl]]]
                               ELSE boCells
                 /\ editEv' = [made |-> TRUE, pending |-> TRUE, sheet |-> sheetName,
                               row |-> row, col |-> col, numRows |-> numRows,
                               value |-> newValue, oldValue |-> old]
    /\ boBefore' = boCells
    /\ editCount' = editCount + 1
    /\ UNCHANGED <<schedVars, hcVars, calVars, histVars, webVars, sessionUser, configC2,
                   rolesEmail>>

\* range.setValue(e.oldValue) if e.oldValue is defined, else
\* range.clearContent(): every cell of the range gets the one value.
Reverted(ev) ==
    [rw \in 1..NumBoRows |-> [cl \in 1..NumBoCols |->
        IF rw + 1 \in EditedDataRows(ev) /\ cl + 1 = ev.col
        THEN (IF ev.oldValue # Undefined THEN ev.oldValue ELSE Blank)
        ELSE boCells[rw][cl]]]

\* Line 522: the row's e-mail differs from the user's.
EmailMismatch(expectedEmail, userEmail) == expectedEmail # userEmail

\* Lines 455-537: whether the handler reverts the edit of the event.
Blocks(ev) ==
    LET userEmail == LowerTrim(sessionUser)
        volunteerName == BoNameOf(ev.row)
        expectedEmail == getVolunteerEmailMap[volunteerName]
    IN  IF ev.sheet # "Blackout Dates" THEN FALSE
        ELSE IF ev.row < 2 \/ ev.col < 2 THEN FALSE
        ELSE IF sessionUser = Blank THEN TRUE
        ELSE IF userEmail \in getAdminEmails THEN FALSE
        ELSE IF volunteerName = Blank THEN FALSE
        ELSE IF expectedEmail = Blank THEN TRUE
        ELSE EmailMismatch(LowerTrim(expectedEmail), userEmail)

\* handleBlackoutEdit(e), the installable onEdit trigger.
HandleBlackoutEdit ==
    /\ editEv.pending
    /\ boCells' = IF Blocks(editEv) THEN Reverted(editEv) ELSE boCells
    /\ editEv' = [editEv EXCEPT !.pending = FALSE]
    /\ UNCHANGED <<schedVars, hcVars, calVars, histVars, webVars, boBefore, sessionUser,
                   configC2,
                   rolesEmail, editCount>>

NextEdit == UserEdit \/ HandleBlackoutEdit

SpecEdit == InitEdit /\ [][NextEdit]_vars

\* ------------------------------------------------ copyScheduleToHistory
\* A sheet row: its first cell (a Date, or text) and the other cells.
HeaderRow == [isDate |-> FALSE, date |-> NoDate, rest |-> "Date"]
DateRow(date, rest) == [isDate |-> TRUE, date |-> date, rest |-> rest]

\* The assignments of the present Schedule, and those of an earlier one.
Current == "current"
Earlier == "earlier"

\* Config!A2 holding a month number.
AnchorCells == {DecimalText(m) : m \in Months}

\* Utils.js lines 58-60 as one step: the first Sunday on or after a date.
RECURSIVE FirstSunday(_)
FirstSunday(date) ==
    IF getDay(date) # 0 THEN FirstSunday(AddDays(date, 1)) ELSE date

RECURSIVE AddWeeks(_, _)
AddWeeks(date, n) == IF n = 0 THEN date ELSE AddWeeks(AddDays(date, 7), n - 1)

\* The Schedule sheet generateSchedule writes when run at `now`: the header
\* row, then one row per Sunday of the range (the first MaxSchedRows of them).
ScheduleSheet(now, raw, rest) ==
    LET first == FirstSunday(QuarterRange(now, Q1Start(raw)).startDate)
    IN  <<HeaderRow>>
            \o [k \in 1..MaxSchedRows |-> DateRow(AddWeeks(first, k - 1), rest)]

\* The month three months before `now`.
QuarterBefore(now) ==
    IF now.month > 3 THEN [now EXCEPT !.month = now.month - 3]
    ELSE [year |-> now.year - 1, month |-> now.month + 9]

\* What Schedule History holds before the first copy: nothing (no such
\* sheet), or an earlier Schedule generated in the same quarter or in the
\* quarter before.
PriorHistories(now, raw) ==
    {<<>>} \cup {ScheduleSheet(t, raw, Earlier) :
                    t \in {u \in {now, QuarterBefore(now)} : u.year \in Years}}

InitHist ==
    /\ SchedulerAtRest
    /\ today \in [year : Years, month : Months]
    /\ configA2 \in AnchorCells
    /\ CalIdle
    /\ EditIdle
    /\ WebIdle
    /\ scheduleData = ScheduleSheet(today, configA2, Current)
    /\ historySheet \in PriorHistories(today, configA2)
    /\ historyExists = (historySheet # <<>>)
    /\ copies = 0
    /\ historyFirst = <<>>

\* Lines 952-957: the row's first cell is a Date within [startDate, endDate].
InQuarter(row, qr) ==
    /\ row.isDate
    /\ InRange(qr.startDate, row.date)
    /\ InRange(row.date, qr.endDate)

\* Lines 964-968: the last row is dropped when its first cell is 'Date'.
DropTrailingHeader(rows) ==
    IF Len(rows) > 0 /\ ~rows[Len(rows)].isDate /\ rows[Len(rows)].rest = "Date"
    THEN SubSeq(rows, 1, Len(rows) - 1)
    ELSE rows

\* copyScheduleToHistory(), lines 935-983.
CopyScheduleToHistory ==
    /\ copies < MaxCopies
    /\ LET created == IF historyExists THEN historySheet ELSE <<scheduleData[1]>>
           qr == getNextQuarterRange
           kept == SelectSeq(created, LAMBDA row : ~InQuarter(row, qr))
       IN  historySheet' = DropTrailingHeader(kept) \o scheduleData
    /\ historyExists' = TRUE
    /\ copies' = copies + 1
    /\ historyFirst' = IF copies = 0 THEN historySheet' ELSE historyFirst
    /\ UNCHANGED <<schedVars, hcVars, calVars, editVars, webVars, scheduleData>>

\* Time passes between two uses of the menu: the next month begins.
ClockAdvance ==
    /\ today.year < BaseYear + NumYears - 1 \/ today.month < 12
    /\ today' = IF today.month < 12 THEN [today EXCEPT !.month = today.month + 1]
                ELSE [year |-> today.year + 1, month |-> 1]
    /\ UNCHANGED <<schedVars, hcVars, configA2, startDate, endDate, cursor,
                   sundays, calPc, editVars, histVars, webVars>>

NextHist == CopyScheduleToHistory \/ ClockAdvance

SpecHist == InitHist /\ [][NextHist]_vars

\* ------------------------------------------------------------ the web app
\* Background colours of WebApp.js lines 89 and 128.
Green == "#90EE90"
Pink == "#FFB6C1"

\* Row 1 of the Schedule sheet: "Date", then the role names.
ScheduleHeaders == <<"Date">> \o SubSeq(RoleSeq, 1, GridCols)

\* Utilities.formatDate(date, tz, "MM/dd/yyyy"), as characters.
FormatDate(date) ==
    LET Pad2(n) == <<Digits[(n \div 10) + 1], Digits[(n % 10) + 1]>>
        y == date.y
        yyyy == <<Digits[(y \div 1000) + 1], Digits[((y \div 100) % 10) + 1],
                 Digits[((y \div 10) % 10) + 1], Digits[(y % 10) + 1]>>
    IN  Pad2(date.m) \o <<"/">> \o Pad2(date.d) \o <<"/">> \o yyyy

\* Column A of the Schedule sheet: a Date, or a cell holding text.
DateCell(date) == [isDate |-> TRUE, date |-> date]
TextCell == [isDate |-> FALSE, date |-> NoDate]
GridSundays == [k \in 1..GridRows |-> AddWeeks(NewDate(BaseYear, 0, 1), k - 1)]
DateColumns ==
    {[k \in 1..GridRows |-> DateCell(GridSundays[k])],
     [k \in 1..GridRows |->
        IF k = GridRows THEN TextCell ELSE DateCell(GridSundays[k])]}

\* Config!F2:G, the lead of each role: rows <<role, lead email>>.
ConfigLeads == <<<<"Helper", Blank>>, <<"Lead", "lead@x">>>>

\* The Schedule grids the web app is run on.
WebGrids ==
    {g \in Grids :
        /\ g[1][1] = NameSeq[1]
        /\ g[1][2] # Excused
        /\ g[2][1] \in {NameSeq[1], Excused}
        /\ \A row \in 1..GridRows : \A c \in 1..GridCols :
              (c > 2 \/ (row > 1 /\ c > 1)) => g[row][c] = Blank}

\* The URL parameters of a request; a parameter that is left out is
\* undefined, the date is text: none, a Sunday of the sheet in MM/dd/yyyy, or
\* the first Sunday written without its leading zero.
Requests ==
    [action : {Undefined, "confirm", "decline", "cancel"},
     name : {Undefined} \cup GridNames,
     role : {Undefined, "Date", "Nope"} \cup Range(SubSeq(RoleSeq, 1, GridCols)),
     date : {<<>>, Tail(FormatDate(GridSundays[1]))}
                \cup {FormatDate(GridSundays[k]) : k \in 1..GridRows}]
NoRequest == [action |-> Undefined, name |-> Undefined, role |-> Undefined, date |-> <<>>]

\* !param: the parameter is undefined or empty (the date: empty text).
Falsy(param) == param = Undefined \/ param = Blank

\* findScheduleCell, lines 175-183: the 1-based column of the first header
\* equal to role, -1 if there is none.
RoleColIndex(role) ==
    LET hits == {c \in 1..Len(ScheduleHeaders) : ScheduleHeaders[c] = role}
    IN  IF hits = {} THEN -1 ELSE CHOOSE c \in hits : \A c2 \in hits : c <= c2

\* findScheduleCell, lines 186-198: the sheet row of the first Date of column A
\* that formats to dateStr, -1 if there is none.
TargetRowIndex(dateStr) ==
    LET hits == {k \in 1..Len(dateColumn) :
                    dateColumn[k].isDate /\ FormatDate(dateColumn[k].date) = dateStr}
    IN  IF hits = {} THEN -1 ELSE (CHOOSE k \in hits : \A k2 \in hits : k <= k2) + 1

\* findScheduleCell(role, dateStr): <<row, column>> of the data grid, or null.
NoCell == <<0, 0>>
findScheduleCell(role, dateStr) ==
    IF RoleColIndex(role) < 2 THEN NoCell
    ELSE IF TargetRowIndex(dateStr) < 2 THEN NoCell
    ELSE <<TargetRowIndex(dateStr) - 1, RoleColIndex(role) - 1>>

\* getLeadEmail(role): the first non-empty lead email of the role, or null.
getLeadEmail(role) ==
    LET hits == {k \in 1..Len(ConfigLeads) :
                    ConfigLeads[k][1] = role /\ ConfigLeads[k][2] # Blank}
    IN  IF hits = {} THEN Blank
        ELSE ConfigLeads[CHOOSE k \in hits : \A k2 \in hits : k <= k2][2]

\* Mutation of NameDiffers: the cell's value is not compared with the name.
NameDiffers_Never(cellValue, name) == FALSE

\* Lines 80 and 121: cellValue !== name.
NameDiffers(cellValue, name) == cellValue # name

\* The processes that may call logAction at the same time.
Callers == 1..NumCallers

\* logAction(description), run without interruption: one row below the header.
Logged(description) ==
    <<[ts |-> "now", description |-> description, person |-> "user"]>> \o logRows

\* A highlight function is between painting and restoring.
InInterval == hcPc = "painted" \/ hopPc = "painted"
IntervalId == <<hcRun, hopRun, hcPc, hopPc>>

\* What doGet returns and changes for a request: lines 21-57, with
\* handleConfirm and handleDecline.
WebOutcome(req) ==
    LET cell == findScheduleCell(req.role, req.date)
        colour == IF req.action = "confirm" THEN Green ELSE Pink
        lead == getLeadEmail(req.role)
    IN  IF Falsy(req.action) \/ Falsy(req.name) \/ Falsy(req.role) \/ req.date = <<>>
        THEN [title |-> "Error", cell |-> NoCell, colour |-> NoColor, mail |-> FALSE,
              log |-> Blank]
        ELSE IF req.action \notin {"confirm", "decline"}
        THEN [title |-> "Error", cell |-> NoCell, colour |-> NoColor, mail |-> FALSE,
              log |-> Blank]
        ELSE IF cell = NoCell
        THEN [title |-> "Error", cell |-> NoCell, colour |-> NoColor, mail |-> FALSE,
              log |-> Blank]
        ELSE IF NameDiffers(schedule[cell[1]][cell[2]], req.name)
        THEN [title |-> "Warning", cell |-> NoCell, colour |-> NoColor, mail |-> FALSE,
              log |-> Blank]
        ELSE IF req.action = "confirm"
        THEN [title |-> "Confirmed!", cell |-> cell, colour |-> colour, mail |-> FALSE,
              log |-> "confirmed"]
        ELSE [title |-> "Declined", cell |-> cell, colour |-> colour,
              mail |-> lead # Blank,
              log |-> IF lead # Blank THEN "declined, lead notified"
                      ELSE "declined, no lead"]

\* The Schedule sheet of the web app, nobody using it yet.
InitWeb ==
    /\ rolesData = CHOOSE data \in RolesSheets : TRUE
    /\ configFloating = {}
    /\ couplesData = <<<<NameSeq[1], NameSeq[2]>>>>
    /\ blackoutData = {}
    /\ blackoutRows = Names
    /\ schedule \in WebGrids
    /\ roleVolunteers = [role \in Range(rolesHeader) |-> <<>>]
    /\ lastAssignedIndex = [role \in Range(rolesHeader) |-> Unset]
    /\ floatingRoles = {}
    /\ couplesMap = NoCouples
    /\ servedLastSunday = {}
    /\ assignedForDate = <<>>
    /\ r = 1
    /\ i = 1
    /\ pc = "done"
    /\ scanLog = EmptyLog
    /\ runNo = 1
    /\ firstRun = NoRun
    /\ HCIdle
    /\ today = [year |-> 0, month |-> 1]
    /\ configA2 = <<>>
    /\ CalIdle
    /\ EditIdle
    /\ HistIdle
    /\ dateColumn \in DateColumns
    /\ request = NoRequest
    /\ response = "none"
    /\ mailsSent = 0
    /\ reqCount = 0
    /\ logRows = <<>>
    /\ logExists = TRUE
    /\ logPc = [p \in Callers |-> "idle"]
    /\ hopPc = "idle"
    /\ hopSaved = <<>>
    /\ hopRun = 1
    /\ intervalMark = [d \in DOMAIN schedule |-> [c \in DOMAIN schedule[d] |-> NoColor]]
    /\ intervalOf = IntervalId

\* doGet(e), one request handled from start to end.
DoGet ==
    /\ reqCount < MaxRequests
    /\ \E req \in Requests :
          LET out == WebOutcome(req)
              d == out.cell[1]
              c == out.cell[2]
              fresh == IF intervalOf = IntervalId THEN intervalMark
                       ELSE [row \in DOMAIN schedule |->
                               [col \in DOMAIN schedule[row] |-> NoColor]]
          IN  /\ request' = req
              /\ response' = out.title
              /\ backgrounds' = IF out.cell = NoCell THEN backgrounds
                                ELSE [backgrounds EXCEPT ![d][c] = out.colour]
              /\ mailsSent' = IF out.mail THEN mailsSent + 1 ELSE mailsSent
              /\ logRows' = IF out.log = Blank THEN logRows ELSE Logged(out.log)
              /\ logExists' = (logExists \/ out.log # Blank)
              /\ intervalMark' = IF out.cell # NoCell /\ InInterval
                                 THEN [fresh EXCEPT ![d][c] = out.colour]
                                 ELSE fresh
              /\ intervalOf' = IntervalId
    /\ reqCount' = reqCount + 1
    /\ UNCHANGED <<schedVars, hcPc, values, sameDayDup, consecWeekDup,
                   coupleConflict, hcRun, hcFirst, calVars, editVars, histVars,
                   dateColumn, hopPc, hopSaved, hopRun, logPc>>

\* Lines 1246-1252: a selected cell holds a person's name.
Selectable(val) == val # Blank /\ val # Excused

\* Lines 1276-1285: the cell holds the person or the person's spouse.
Highlighted(val, person) ==
    /\ val # Blank
    /\ val = person \/ (getCouplesMap[person] # Blank /\ val = getCouplesMap[person])

\* highlightOnePerson up to the pause, lines 1220-1307: with a person's cell
\* selected, the backgrounds are read and the matching cells painted.
HOP_Paint ==
    /\ hopPc \in {"idle", "restored"}
    /\ hopPc = "restored" => hopRun < MaxRuns
    /\ \E d \in DOMAIN schedule : \E c \in DOMAIN schedule[d] :
          /\ Selectable(schedule[d][c])
          /\ hopSaved' = backgrounds
          /\ backgrounds' =
                [row \in DOMAIN schedule |-> [col \in DOMAIN schedule[row] |->
                    IF Highlighted(schedule[row][col], schedule[d][c])
                    THEN Red ELSE backgrounds[row][col]]]
    /\ hopRun' = IF hopPc = "restored" THEN hopRun + 1 ELSE hopRun
    /\ hopPc' = "painted"
    /\ UNCHANGED <<schedVars, hcPc, values, sameDayDup, consecWeekDup,
                   coupleConflict, hcRun, hcFirst, calVars, editVars, histVars,
                   dateColumn, request, response, mailsSent, reqCount, logRows,
                   intervalMark, intervalOf, logExists, logPc>>

\* Lines 1309-1314: the array read before the pause, the painted cells set
\* back to originalBg, is written to the whole range.
RestoredBackgrounds(saved) == saved

\* highlightOnePerson after the pause.
HOP_Restore ==
    /\ hopPc = "painted"
    /\ backgrounds' = RestoredBackgrounds(hopSaved)
    /\ hopPc' = "restored"
    /\ UNCHANGED <<schedVars, hcPc, values, sameDayDup, consecWeekDup,
                   coupleConflict, hcRun, hcFirst, calVars, editVars, histVars,
                   dateColumn, request, response, mailsSent, reqCount, logRows,
                   hopSaved, hopRun, intervalMark, intervalOf, logExists, logPc>>

\* Requests arrive at any time; one highlight function runs at a time.
NextWeb ==
    \/ DoGet
    \/ (hopPc # "painted" /\ NextClassify)
    \/ (hcPc \in {"idle", "restored"} /\ (HOP_Paint \/ HOP_Restore))

SpecWeb == InitWeb /\ [][NextWeb]_vars

\* -------------------------------------------------------------- logAction
\* Timestamp, description and user name of the call of caller p.
CallRow(p) ==
    [ts |-> <<"time 1", "time 2", "time 3", "time 4">>[p],
     description |-> <<"action 1", "action 2", "action 3", "action 4">>[p],
     person |-> <<"user 1", "user 2", "user 3", "user 4">>[p]]
EmptyRow == [ts |-> Blank, description |-> Blank, person |-> Blank]
OldRow == [ts |-> "before", description |-> "earlier action", person |-> "user"]

\* The Logs sheet is missing, or holds its header and the entries so far.
InitLog ==
    /\ SchedulerAtRest
    /\ today = [year |-> 0, month |-> 1]
    /\ configA2 = <<>>
    /\ CalIdle
    /\ EditIdle
    /\ HistIdle
    /\ dateColumn = <<>>
    /\ request = NoRequest
    /\ response = "none"
    /\ mailsSent = 0
    /\ reqCount = 0
    /\ logExists \in BOOLEAN
    /\ logRows \in (IF logExists THEN {<<>>, <<OldRow>>, <<OldRow, OldRow>>} ELSE {<<>>})
    /\ logPc = [p \in Callers |-> "idle"]
    /\ hopPc = "idle"
    /\ hopSaved = <<>>
    /\ hopRun = 1
    /\ intervalMark = <<>>
    /\ intervalOf = IntervalId

\* Line 89: logSheet.insertRowBefore(2).
InsertedRows(rows) == <<EmptyRow>> \o rows

\* What logAction leaves alone.
logFrame == <<schedVars, hcVars, calVars, editVars, histVars, dateColumn, request,
              response, mailsSent, reqCount, hopPc, hopSaved, hopRun, intervalMark,
              intervalOf>>

\* Lines 79-89: the sheet is created with its header if it is missing, and
\* an empty row is inserted as row 2.
LogInsert ==
    /\ \E p \in Callers :
          /\ logPc[p] = "idle"
          /\ logPc' = [logPc EXCEPT ![p] = "inserted"]
    /\ logExists' = TRUE
    /\ logRows' = InsertedRows(logRows)
    /\ UNCHANGED logFrame

\* Line 101: logSheet.getRange(2, 1).setValue(formattedTimestamp).
LogTimestamp ==
    /\ \E p \in Callers :
          /\ logPc[p] = "inserted"
          /\ logRows' = [logRows EXCEPT ![1].ts = CallRow(p).ts]
          /\ logPc' = [logPc EXCEPT ![p] = "stamped"]
    /\ UNCHANGED <<logExists, logFrame>>

\* Line 102: logSheet.getRange(2, 2).setValue(description).
LogDescription ==
    /\ \E p \in Callers :
          /\ logPc[p] = "stamped"
          /\ logRows' = [logRows EXCEPT ![1].description = CallRow(p).description]
          /\ logPc' = [logPc EXCEPT ![p] = "described"]
    /\ UNCHANGED <<logExists, logFrame>>

\* Line 103: logSheet.getRange(2, 3).setValue(name).
LogPerson ==
    /\ \E p \in Callers :
          /\ logPc[p] = "described"
          /\ logRows' = [logRows EXCEPT ![1].person = CallRow(p).person]
          /\ logPc' = [logPc EXCEPT ![p] = "done"]
    /\ UNCHANGED <<logExists, logFrame>>

\* Each caller runs logAction once; the steps of different callers interleave.
NextLog == LogInsert \/ LogTimestamp \/ LogDescription \/ LogPerson

SpecLog == InitLog /\ [][NextLog]_vars

\* ---------------------------------------------------------------- claims
\* What the claims read off the Schedule grid, without the scan's own
\* bookkeeping.
Floating(c) == rolesHeader[c] \in floatingRoles
Eligible(c) == roleVolunteers[rolesHeader[c]]
VolAt(c, idx) == Eligible(c)[idx + 1]
IndexOf(c, v) == CHOOSE k \in 0..(Len(Eligible(c)) - 1) : VolAt(c, k) = v
Processed(d, c) == scanLog[d][c].done
\* Names in the cells of date d left of column c.
AssignedBefore(d, c) == {schedule[d][c2] : c2 \in 1..(c - 1)} \ {Blank}
\* Names in any cell of date d (nobody before the first date).
ServedOn(d) == IF d \in DateIdx THEN {schedule[d][c] : c \in RoleIdx} \ {Blank} ELSE {}
SkippedIdx(d, c) == {scanLog[d][c].skipped[k][1] : k \in 1..Len(scanLog[d][c].skipped)}
SkippedBy(d, c, rule) ==
    {scanLog[d][c].skipped[k][1] :
        k \in {k2 \in 1..Len(scanLog[d][c].skipped) : scanLog[d][c].skipped[k2][2] = rule}}

\* The pairing map is symmetric and pairs a volunteer with another volunteer.
ValidPairing ==
    \A a \in Names : couplesMap[a] # Blank =>
        /\ couplesMap[a] \in Names
        /\ couplesMap[a] # a
        /\ couplesMap[couplesMap[a]] = a

\* C1: with a symmetric pairing map, the partner of the volunteer of an
\* assigned cell is in no cell, floating or not, of the same date.
C1_NoPartnerSameDate ==
    ValidPairing =>
        \A d \in DateIdx : \A c \in RoleIdx :
            LET v == schedule[d][c]
            IN  (v # Blank /\ couplesMap[v] # Blank) =>
                    \A c2 \in RoleIdx : schedule[d][c2] # couplesMap[v]

\* A partner was the next candidate, was rejected because the spouse already
\* serves that date, and the run completed.
C1_Witness ==
    /\ pc = "done"
    /\ ValidPairing
    /\ \E d \in DateIdx : \E c \in RoleIdx :
          \E idx \in SkippedBy(d, c, 3) :
              couplesMap[VolAt(c, idx)] \in AssignedBefore(d, c)

\* C2: on no date does a volunteer hold two cells of non-floating roles.
C2_OneNonFloatingRolePerDate ==
    \A d \in DateIdx : \A v \in Names :
        Cardinality({c \in RoleIdx : schedule[d][c] = v /\ ~Floating(c)}) <= 1

\* A volunteer holding a role was rejected for a later non-floating role of
\* the same date, and another volunteer got that role.
C2_Witness ==
    /\ pc = "done"
    /\ \E d \in DateIdx : \E c \in RoleIdx :
          /\ ~Floating(c)
          /\ SkippedBy(d, c, 1) # {}
          /\ schedule[d][c] # Blank

\* C3: a volunteer in any cell of date d is in no cell of date d+1.
C3_NoConsecutiveDates ==
    \A d \in DateIdx : \A c1 \in RoleIdx : \A c2 \in RoleIdx :
        (d + 1 \in DateIdx /\ schedule[d][c1] # Blank) =>
            schedule[d + 1][c2] # schedule[d][c1]

\* The volunteer next in rotation order served the date before: the scan
\* passed over them and assigned a later candidate.
C3_Witness ==
    /\ pc = "done"
    /\ \E d \in DateIdx : \E c \in RoleIdx :
          /\ d > 1
          /\ scanLog[d][c].start \in SkippedBy(d, c, 2)
          /\ VolAt(c, scanLog[d][c].start) \in ServedOn(d - 1)
          /\ schedule[d][c] # Blank

\* C4: the volunteer of an assigned cell has no TRUE blackout checkbox for
\* the date of that cell.
C4_NoBlackoutAssigned ==
    \A d \in DateIdx : \A c \in RoleIdx :
        schedule[d][c] # Blank => <<schedule[d][c], d>> \notin blackoutData

\* A blacked-out candidate was passed over and the role went to another one.
C4_Witness ==
    /\ pc = "done"
    /\ \E d \in DateIdx : \E c \in RoleIdx :
          /\ SkippedBy(d, c, 4) # {}
          /\ schedule[d][c] # Blank

\* The four rejection rules for volunteer v at cell (d, c), read off the grid:
\* the names left of c on date d, the names of date d - 1, the pairing map
\* and the blackout checkboxes.
Passes(d, c, v) ==
    /\ Floating(c) \/ v \notin AssignedBefore(d, c)
    /\ v \notin ServedOn(d - 1)
    /\ couplesMap[v] = Blank \/ couplesMap[v] \notin AssignedBefore(d, c)
    /\ <<v, d>> \notin blackoutData

\* The pointer of column c when date d begins: the index of the volunteer in
\* the last non-blank cell of that column above row d.
PointerBefore(d, c) ==
    LET rows == {d2 \in 1..(d - 1) : schedule[d2][c] # Blank}
        last == CHOOSE d2 \in rows : \A d3 \in rows : d3 <= d2
    IN  IF rows = {} THEN Unset ELSE IndexOf(c, schedule[last][c])

\* C5: the scan of a cell with N > 0 eligible volunteers starts at index
\* (pointer + 1) mod N, visits consecutive indices with wrap-around, at most N
\* of them, and the cell holds the first volunteer in that order that passes
\* all four rules; it is blank exactly when no eligible volunteer passes.
C5_FirstPassingCandidate ==
    \A d \in DateIdx : \A c \in RoleIdx :
        (Processed(d, c) /\ Len(Eligible(c)) > 0) =>
            LET n == Len(Eligible(c))
                start == (PointerBefore(d, c) + 1) % n
                order == [k \in 0..(n - 1) |-> (start + k) % n]
                passing == {k \in 0..(n - 1) : Passes(d, c, VolAt(c, order[k]))}
                first == CHOOSE k \in passing : \A k2 \in passing : k <= k2
                log == scanLog[d][c]
            IN  /\ log.start = start
                /\ \A k \in 1..Len(log.skipped) : log.skipped[k][1] = order[k - 1]
                /\ Len(log.skipped) + (IF schedule[d][c] # Blank THEN 1 ELSE 0) <= n
                /\ (schedule[d][c] = Blank) <=> (passing = {})
                /\ passing # {} =>
                      /\ schedule[d][c] = VolAt(c, order[first])
                      /\ Len(log.skipped) = first
                /\ passing = {} => Len(log.skipped) = n

\* A scan that started past index 0, rejected a candidate, wrapped around and
\* assigned a volunteer at a lower index; and a scan that rejected everyone.
C5_Witness ==
    /\ pc = "done"
    /\ \E d \in DateIdx : \E c \in RoleIdx :
          /\ scanLog[d][c].index # Unset
          /\ scanLog[d][c].index < scanLog[d][c].start
          /\ scanLog[d][c].skipped # <<>>
    /\ \E d \in DateIdx : \E c \in RoleIdx :
          /\ Len(Eligible(c)) >= 2
          /\ schedule[d][c] = Blank

\* Column c is the only role with eligible volunteers, it has at least two of
\* them, no checkbox of the Blackout Dates sheet is TRUE and nobody has a spouse.
SingleRole(c) ==
    /\ pc # "idle"
    /\ Len(Eligible(c)) >= 2
    /\ \A c2 \in RoleIdx \ {c} : Len(Eligible(c2)) = 0
    /\ blackoutData = {}
    /\ \A v \in Names : couplesMap[v] = Blank

\* C6: round-robin wrap.  For a single role with N >= 2 eligible volunteers,
\* no blackouts and no pairings, the cell of the i-th date (0-based) holds
\* volunteer i mod N of the role's list.
C6_RoundRobinWrap ==
    \A c \in RoleIdx :
        SingleRole(c) =>
            \A d \in DateIdx :
                Processed(d, c) => schedule[d][c] = VolAt(c, (d - 1) % Len(Eligible(c)))

\* A completed single-role run with more dates than volunteers: the last
\* date has wrapped around to an earlier volunteer.
C6_Witness ==
    /\ pc = "done"
    /\ \E c \in RoleIdx :
          /\ SingleRole(c)
          /\ Len(Eligible(c)) < NumDates
          /\ schedule[NumDates][c] = VolAt(c, (NumDates - 1) % Len(Eligible(c)))
          /\ schedule[NumDates][c] = schedule[NumDates - Len(Eligible(c))][c]

\* Number of the first D dates on which column c holds volunteer v.
TimesAssigned(c, v, D) == Cardinality({d \in 1..D : schedule[d][c] = v})

\* No scan of column c on the first D dates rejected a candidate.
NoRejections(c, D) ==
    \A d \in 1..D : Processed(d, c) /\ scanLog[d][c].skipped = <<>>

\* C7: rotation fairness.  Over the first D >= N dates of a run in which no
\* candidate of a role with N volunteers was rejected, every one of the N
\* volunteers holds the role at least floor(D/N) and at most ceil(D/N) times.
C7_RotationFairness ==
    \A c \in RoleIdx : \A D \in DateIdx :
        LET n == Len(Eligible(c))
        IN  (pc # "idle" /\ n > 0 /\ D >= n /\ NoRejections(c, D)) =>
                \A k \in 0..(n - 1) :
                    /\ TimesAssigned(c, VolAt(c, k), D) >= D \div n
                    /\ TimesAssigned(c, VolAt(c, k), D) <= (D + n - 1) \div n

\* A full run without rejections for a role whose volunteers do not divide
\* the dates evenly: some volunteer serves floor(D/N), another ceil(D/N) times.
C7_Witness ==
    /\ pc = "done"
    /\ \E c \in RoleIdx :
          LET n == Len(Eligible(c))
          IN  /\ n >= 2
              /\ NumDates >= n
              /\ NoRejections(c, NumDates)
              /\ NumDates % n # 0
              /\ \E k \in 0..(n - 1) : TimesAssigned(c, VolAt(c, k), NumDates) = NumDates \div n
              /\ \E k \in 0..(n - 1) : TimesAssigned(c, VolAt(c, k), NumDates) = (NumDates \div n) + 1

\* On date d the scan of column c passed over at least one candidate and
\* assigned a later one, and the same column has been scanned on date d + 1.
PassedOverThenRescanned(d, c) ==
    /\ d + 1 \in DateIdx
    /\ Processed(d, c)
    /\ Processed(d + 1, c)
    /\ scanLog[d][c].skipped # <<>>
    /\ scanLog[d][c].index # Unset

\* C8 as stated: after a scan that passed over a volunteer and assigned a
\* later candidate, the next date's scan of that role considers a passed-over
\* volunteer first.
C8_PassedOverIsFirstNext ==
    \A d \in DateIdx : \A c \in RoleIdx :
        PassedOverThenRescanned(d, c) =>
            scanLog[d + 1][c].start \in SkippedIdx(d, c)

\* C8 (amended): after a scan that passed over a volunteer and assigned the
\* candidate at index j, the next date's scan of that role starts at
\* (j + 1) mod N, so a passed-over volunteer is considered first only if it
\* sits right after the assigned one; otherwise it waits for the wrap-around.
C8_NextScanStartsAfterAssigned ==
    \A d \in DateIdx : \A c \in RoleIdx :
        PassedOverThenRescanned(d, c) =>
            LET after == (scanLog[d][c].index + 1) % Len(Eligible(c))
            IN  /\ scanLog[d + 1][c].start = after
                /\ \A s \in SkippedIdx(d, c) :
                      (scanLog[d + 1][c].start = s) <=> (s = after)

\* A blacked-out volunteer was passed over, a later candidate was assigned,
\* and the next date's scan started at a volunteer that was not passed over.
C8_Witness ==
    \E d \in DateIdx : \E c \in RoleIdx :
        /\ PassedOverThenRescanned(d, c)
        /\ SkippedBy(d, c, 4) # {}
        /\ scanLog[d + 1][c].start \notin SkippedIdx(d, c)

\* C9 as stated: a volunteer is never rejected by check 1 for a non-floating
\* role on account of a floating role held that date, that is, every
\* candidate check 1 rejects already holds a non-floating role on that date.
C9_FloatingDoesNotBlock ==
    \A d \in DateIdx : \A c \in RoleIdx :
        (Processed(d, c) /\ ~Floating(c)) =>
            \A idx \in SkippedBy(d, c, 1) :
                \E c2 \in 1..(c - 1) :
                    schedule[d][c2] = VolAt(c, idx) /\ ~Floating(c2)

\* C10: every role's pointer is -1 or an index 0..N-1 of the role's list of
\* eligible volunteers, and it is -1 for a role without eligible volunteers.
C10_PointerInRange ==
    \A c \in RoleIdx :
        LET ptr == lastAssignedIndex[rolesHeader[c]]
            n == Len(Eligible(c))
        IN  /\ ptr = Unset \/ ptr \in 0..(n - 1)
            /\ n = 0 => ptr = Unset

\* The run is complete, one pointer sits on the last index of its list and a
\* role without volunteers has been scanned on every date.
C10_Witness ==
    /\ pc = "done"
    /\ \E c \in RoleIdx :
          /\ Len(Eligible(c)) >= 2
          /\ lastAssignedIndex[rolesHeader[c]] = Len(Eligible(c)) - 1
    /\ \E c \in RoleIdx :
          /\ Len(Eligible(c)) = 0
          /\ lastAssignedIndex[rolesHeader[c]] = Unset

\* ------------------------------------------------ runs after a prior run
\* The pointer the previous run left for the role of column c.
PriorPointer(c) == firstRun.pointers[rolesHeader[c]]

\* C11 as stated: in a run that follows a prior run, the first date's scan of
\* each role starts at (seed + 1) mod N, the seed being the pointer the prior
\* run left for that role.
C11_FirstScanContinuesPriorRun ==
    \A c \in RoleIdx :
        (firstRun.recorded /\ Processed(1, c) /\ Len(Eligible(c)) > 0) =>
            scanLog[1][c].start = (PriorPointer(c) + 1) % Len(Eligible(c))

\* C11 (amended): the scheduler takes no seed.  Every run, also one that
\* follows a prior run, begins with all pointers unset (-1), so the first
\* date's scan of every role with eligible volunteers starts at index 0.
C11_EveryRunStartsUnset ==
    /\ (pc = "roles" /\ r = 1 /\ i = 1) =>
          \A c \in RoleIdx : lastAssignedIndex[rolesHeader[c]] = Unset
    /\ \A c \in RoleIdx :
          (Processed(1, c) /\ Len(Eligible(c)) > 0) => scanLog[1][c].start = 0

\* A second run whose prior run left a pointer that would continue the
\* rotation at a later index; its first scan of that role has started at 0.
C11_Witness ==
    /\ firstRun.recorded
    /\ \E c \in RoleIdx :
          /\ Len(Eligible(c)) >= 2
          /\ PriorPointer(c) # Unset
          /\ (PriorPointer(c) + 1) % Len(Eligible(c)) # 0
          /\ Processed(1, c)
          /\ scanLog[1][c].start = 0

\* C12: determinism.  A second run on the same sheets writes, cell by cell,
\* the grid of the first run and ends with the pointers of the first run.
C12_SameInputsSameOutput ==
    firstRun.recorded =>
        /\ \A d \in DateIdx : \A c \in RoleIdx :
              Processed(d, c) =>
                  /\ schedule[d][c] = firstRun.grid[d][c]
                  /\ scanLog[d][c] = firstRun.log[d][c]
        /\ pc = "done" =>
              /\ schedule = firstRun.grid
              /\ lastAssignedIndex = firstRun.pointers

\* The second run is complete; the first run ended with a volunteer serving
\* on the last Sunday and with a pointer that had moved.
C12_Witness ==
    /\ firstRun.recorded
    /\ pc = "done"
    /\ \E c \in RoleIdx :
          /\ firstRun.grid[NumDates][c] # Blank
          /\ firstRun.grid[1][c] = firstRun.grid[NumDates][c]
          /\ PriorPointer(c) # Unset

\* ------------------------------------------------------------ termination
\* Cell (d, c) comes before the loop position (r, i) in date-then-role order.
BeforePosition(d, c) == pc # "idle" /\ (d < r \/ (d = r /\ c < i))

AllProcessed == \A d \in DateIdx : \A c \in RoleIdx : Processed(d, c)

\* The scan of cell (d, c) rejected every eligible volunteer of the role.
Unsatisfiable(d, c) ==
    /\ Processed(d, c)
    /\ Len(scanLog[d][c].skipped) = Len(Eligible(c))

\* A processed cell is never processed again: its value and scan are final.
ProcessedCellsKept ==
    \A d \in DateIdx : \A c \in RoleIdx :
        Processed(d, c) =>
            /\ scanLog'[d][c] = scanLog[d][c]
            /\ schedule'[d][c] = schedule[d][c]

\* C13: the run processes the cells in ascending date order and, within a
\* date, in role order; each cell is processed exactly once; a cell whose
\* constraints are unsatisfiable is left empty; and the run always reaches
\* its end with every cell processed.
C13_TerminatesEveryCellOnce ==
    /\ [](\A d \in DateIdx : \A c \in RoleIdx :
            /\ Processed(d, c) <=> BeforePosition(d, c)
            /\ Unsatisfiable(d, c) => schedule[d][c] = Blank)
    /\ [](pc = "done" => AllProcessed)
    /\ [][ProcessedCellsKept]_vars
    /\ <>(pc = "done" /\ AllProcessed)

\* A finished run in which a role with eligible volunteers was left empty on
\* some date because every one of them was rejected.
C13_Witness ==
    /\ pc = "done"
    /\ AllProcessed
    /\ \E d \in DateIdx : \E c \in RoleIdx :
          /\ Len(Eligible(c)) > 0
          /\ Unsatisfiable(d, c)
          /\ schedule[d][c] = Blank

\* -------------------------------------------------------- invalid input
\* Some role's eligible list holds a volunteer the Blackout Dates sheet does
\* not know (the setup has read the lists).
UnknownReferenced ==
    /\ pc # "idle"
    /\ \E c \in RoleIdx : \E k \in 1..Len(Eligible(c)) :
          Eligible(c)[k] \notin blackoutRows

Classified == hcPc \in {"detected", "painted", "restored"}

GridRowIdx == 1..GridRows
GridColIdx == 1..GridCols

\* The cell holds a volunteer: it is neither empty nor excused.
HoldsVolunteer(row, col) == values[row][col] \notin {Blank, Excused}

\* Columns of the row whose cell holds the same value as cell (row, col).
SameValueCols(row, col) == {c \in GridColIdx : values[row][c] = values[row][col]}

\* C15: a cell is flagged as same-day duplicate exactly when it holds a
\* volunteer (not empty, not "NA") whose name is in more than one cell of the
\* row; so two cells of a row with the same name are both flagged.
C15_SameDayDuplicateIff ==
    Classified =>
        \A row \in GridRowIdx : \A col \in GridColIdx :
            sameDayDup[row][col] <=>
                (HoldsVolunteer(row, col) /\ Cardinality(SameValueCols(row, col)) > 1)

\* A name twice in a row with both cells flagged and a third named cell of
\* that row not flagged, and a row with two "NA" cells, neither flagged.
C15_Witness ==
    /\ Classified
    /\ \E row \in GridRowIdx : \E c1, c2, c3 \in GridColIdx :
          /\ c1 # c2
          /\ HoldsVolunteer(row, c1)
          /\ values[row][c1] = values[row][c2]
          /\ sameDayDup[row][c1] /\ sameDayDup[row][c2]
          /\ HoldsVolunteer(row, c3) /\ ~sameDayDup[row][c3]
    /\ \E row \in GridRowIdx : \E c1, c2 \in GridColIdx :
          /\ c1 # c2
          /\ values[row][c1] = Excused /\ values[row][c2] = Excused
          /\ ~sameDayDup[row][c1] /\ ~sameDayDup[row][c2]

\* The volunteers of a row, read off the grid.
VolunteersIn(row) ==
    {values[row][c] : c \in {c \in GridColIdx : HoldsVolunteer(row, c)}}

\* The rows adjacent to a row by position.
Neighbours(row) == {row - 1, row + 1} \cap GridRowIdx

PartnerInRow(row, col) ==
    /\ couplesMap[values[row][col]] # Blank
    /\ couplesMap[values[row][col]] \in VolunteersIn(row)

\* C17: a cell is flagged as couple conflict exactly when it holds a
\* volunteer who has a pairing partner and that partner is, as a volunteer,
\* in some cell of the same row.
C17_CoupleConflictIff ==
    Classified =>
        \A row \in GridRowIdx : \A col \in GridColIdx :
            coupleConflict[row][col] <=>
                (HoldsVolunteer(row, col) /\ PartnerInRow(row, col))

\* C18: the colour painted on a cell is that of the couple conflict if the
\* cell has that flag, otherwise that of the consecutive week if it has that
\* flag, otherwise that of the same-day duplicate if it has that flag,
\* otherwise none.
C18_Precedence ==
    hcPc = "painted" =>
        \A row \in GridRowIdx : \A col \in GridColIdx :
            backgrounds[row][col] =
                CASE coupleConflict[row][col] -> Blue
                  [] consecWeekDup[row][col] -> Yellow
                  [] sameDayDup[row][col] -> Red
                  [] OTHER -> NoColor

\* A painted grid with a cell that has all three flags (blue), a cell with
\* the consecutive-week flag and no couple flag (yellow), and a cell with no
\* flag (no colour).
C18_Witness ==
    /\ hcPc = "painted"
    /\ \E row \in GridRowIdx : \E col \in GridColIdx :
          /\ sameDayDup[row][col] /\ consecWeekDup[row][col] /\ coupleConflict[row][col]
          /\ backgrounds[row][col] = Blue
    /\ \E row \in GridRowIdx : \E col \in GridColIdx :
          /\ consecWeekDup[row][col] /\ ~coupleConflict[row][col]
          /\ backgrounds[row][col] = Yellow
    /\ \E row \in GridRowIdx : \E col \in GridColIdx :
          /\ ~sameDayDup[row][col]
          /\ ~consecWeekDup[row][col] /\ ~coupleConflict[row][col]
          /\ backgrounds[row][col] = NoColor

\* C19: a cell holding "NA" gets no flag and no colour, and no cell is
\* flagged as couple conflict on account of an "NA" partner.
C19_ExcusedNeverAName ==
    Classified =>
        \A row \in GridRowIdx : \A col \in GridColIdx :
            /\ values[row][col] = Excused =>
                  /\ ~sameDayDup[row][col]
                  /\ ~consecWeekDup[row][col]
                  /\ ~coupleConflict[row][col]
                  /\ hcPc = "painted" => backgrounds[row][col] = NoColor
            /\ coupleConflict[row][col] => couplesMap[values[row][col]] # Excused


\* C20: no step of highlightConflicts changes a value of the Schedule grid,
\* and a second run on the same grid and Couples sheet computes the flags
\* and paints the colours of the first run.
C20_ClassifierPure ==
    /\ [][schedule' = schedule]_vars
    /\ []((hcFirst.recorded /\ Classified) =>
            /\ values = hcFirst.grid
            /\ sameDayDup = hcFirst.same
            /\ consecWeekDup = hcFirst.consec
            /\ coupleConflict = hcFirst.couple)
    /\ []((hcFirst.recorded /\ hcPc = "painted") => backgrounds = hcFirst.colors)

\* The second run has painted a grid in which some cell is coloured.
C20_Witness ==
    /\ hcRun = MaxRuns
    /\ hcFirst.recorded
    /\ hcPc = "painted"
    /\ schedule = hcFirst.grid
    /\ \E row \in GridRowIdx : \E col \in GridColIdx :
          backgrounds[row][col] # NoColor

\* ------------------------------------------------------- scheduler frame
\* The step fills the cell of the loop position with a volunteer.
AssignsNow == pc = "roles" /\ schedule'[r][i] # Blank

\* C26: a role's pointer changes only in the step that assigns a candidate
\* to that role, and after such a step it is that candidate's index; a step
\* that leaves the cell empty, and a step for another role, leave it as it is.
C26_PointerFrame ==
    [][\A c \in RoleIdx :
          LET role == rolesHeader[c]
          IN  /\ (AssignsNow /\ c = i) =>
                    lastAssignedIndex'[role] = IndexOf(c, schedule'[r][i])
              /\ ~(AssignsNow /\ c = i) =>
                    lastAssignedIndex'[role] = lastAssignedIndex[role]]_vars

\* The cell just filled went to a candidate after others were rejected, and
\* the pointer is that candidate's index; an earlier date of the same role
\* was left empty with every candidate rejected.
C26_Witness ==
    /\ pc \in {"roles", "endDate"}
    /\ i > 1
    /\ LET c == i - 1
       IN  /\ schedule[r][c] # Blank
           /\ SkippedIdx(r, c) # {}
           /\ lastAssignedIndex[rolesHeader[c]] = IndexOf(c, schedule[r][c])
           /\ lastAssignedIndex[rolesHeader[c]] \notin SkippedIdx(r, c)
           /\ \E d \in 1..(r - 1) : Len(Eligible(c)) > 0 /\ Unsatisfiable(d, c)

\* The cells of date d are all written.
DateDone(d) == \A c \in RoleIdx : Processed(d, c)

\* Volunteer v holds a floating role on date d and no other role that date.
OnlyFloatingOn(v, d) ==
    /\ \E c \in RoleIdx : Floating(c) /\ schedule[d][c] = v
    /\ \A c \in RoleIdx : schedule[d][c] = v => Floating(c)

\* The scan of cell (d, c) looked at volunteer v and went on to the next.
RejectedIn(d, c, v) ==
    /\ v \in Range(Eligible(c))
    /\ IndexOf(c, v) \in SkippedIdx(d, c)

\* C27: every assignee of the current date, of a floating role or not, is in
\* assignedForDate; and a volunteer whose only role on date d is floating is
\* assigned to no role on date d+1, every scan of that date that reaches the
\* volunteer rejecting them by check 2.
C27_FloatingCountsForNextDate ==
    /\ pc \in {"roles", "endDate"} =>
          Range(assignedForDate) = {schedule[r][c] : c \in 1..(i - 1)} \ {Blank}
    /\ \A d \in DateIdx : \A v \in Names :
          (d + 1 \in DateIdx /\ DateDone(d) /\ OnlyFloatingOn(v, d)) =>
              \A c \in RoleIdx :
                  Processed(d + 1, c) =>
                      /\ schedule[d + 1][c] # v
                      /\ RejectedIn(d + 1, c, v) =>
                            IndexOf(c, v) \in SkippedBy(d + 1, c, 2)

\* A volunteer held only a floating role on one date and on the next date
\* was rejected by check 2 both for a floating and for a non-floating role.
C27_Witness ==
    \E d \in DateIdx : \E v \in Names :
        /\ d + 1 \in DateIdx
        /\ DateDone(d + 1)
        /\ OnlyFloatingOn(v, d)
        /\ \E c1, c2 \in RoleIdx :
              /\ Floating(c1) /\ ~Floating(c2)
              /\ RejectedIn(d + 1, c1, v) /\ IndexOf(c1, v) \in SkippedBy(d + 1, c1, 2)
              /\ RejectedIn(d + 1, c2, v) /\ IndexOf(c2, v) \in SkippedBy(d + 1, c2, 2)

\* C28: the scan of a floating role never rejects by check 1, whoever is
\* already assigned that date; checks 2, 3 and 4 still bind: the volunteer
\* of a floating cell did not serve the date before, has no spouse among the
\* names assigned earlier that date, and is not blacked out.
C28_FloatingExemption ==
    \A d \in DateIdx : \A c \in RoleIdx :
        (Processed(d, c) /\ Floating(c)) =>
            /\ SkippedBy(d, c, 1) = {}
            /\ schedule[d][c] # Blank =>
                  LET v == schedule[d][c]
                  IN  /\ v \notin ServedOn(d - 1)
                      /\ couplesMap[v] = Blank \/ couplesMap[v] \notin AssignedBefore(d, c)
                      /\ <<v, d>> \notin blackoutData

\* One volunteer holds a non-floating role and, filled after it, a floating
\* role on the same date; on another date the floating role's scan rejected
\* a candidate by one of checks 2 to 4.
C28_Witness ==
    /\ \E d \in DateIdx : \E c1, c2 \in RoleIdx :
          /\ c1 < c2
          /\ ~Floating(c1) /\ Floating(c2)
          /\ schedule[d][c1] # Blank
          /\ schedule[d][c2] = schedule[d][c1]
    /\ \E d \in DateIdx : \E c \in RoleIdx :
          /\ Floating(c)
          /\ Processed(d, c)
          /\ SkippedIdx(d, c) # {}

\* C29: check 2 looks one date back only.  While a date is being filled,
\* servedLastSunday holds exactly the names of the date before; so whoever a
\* scan of date d+2 rejects by check 2 served on date d+1, and a volunteer who
\* served on date d but not on d+1 is never rejected by it on d+2.
C29_OneDateLookback ==
    /\ pc \in {"roles", "endDate"} => servedLastSunday = ServedOn(r - 1)
    /\ \A d \in DateIdx : \A c \in RoleIdx :
          Processed(d, c) =>
              \A idx \in SkippedBy(d, c, 2) : VolAt(c, idx) \in ServedOn(d - 1)

\* A volunteer served on a date, not on the next (when others served), and
\* was assigned again on the date after that.
C29_Witness ==
    \E d \in DateIdx : \E c1, c2 \in RoleIdx :
        /\ d + 2 \in DateIdx
        /\ schedule[d][c1] # Blank
        /\ schedule[d][c1] \notin ServedOn(d + 1)
        /\ ServedOn(d + 1) # {}
        /\ Processed(d + 2, c2)
        /\ schedule[d + 2][c2] = schedule[d][c1]

\* --------------------------------------------------------------- calendar
\* getNextQuarterRange has returned.
RangeComputed == calPc # "idle"

\* Days since 1 January of BaseYear of the entries of the array.
SundayNumbers == {DayNumber(sundays[k]) : k \in 1..Len(sundays)}

\* C21: the array holds real calendar dates that are all Sundays, ascending
\* in steps of exactly 7 days, all within [startDate, endDate]; when it is
\* returned it holds every Sunday of that range.
C21_AllSundaysOfRange ==
    /\ \A k \in 1..Len(sundays) :
          /\ sundays[k].m \in Months
          /\ sundays[k].d \in 1..DaysInMonth(sundays[k].y, sundays[k].m)
          /\ getDay(sundays[k]) = 0
          /\ DayNumber(startDate) <= DayNumber(sundays[k])
          /\ DayNumber(sundays[k]) <= DayNumber(endDate)
          /\ k > 1 => DayNumber(sundays[k]) = DayNumber(sundays[k - 1]) + 7
    /\ calPc = "done" =>
          \A n \in DayNumber(startDate)..DayNumber(endDate) :
              (BaseWeekday + n) % 7 = 0 => n \in SundayNumbers

\* The array is returned for a quarter that does not start on a Sunday and
\* ends on one.
C21_Witness ==
    /\ calPc = "done"
    /\ Len(sundays) >= 13
    /\ sundays[1] # startDate
    /\ sundays[Len(sundays)] = endDate

\* Months since year 0 of the first month of the anchor-aligned period that
\* follows the one "today" lies in.
NextPeriodMonth(now, anchor) ==
    LET abs == now.year * 12 + now.month - 1
        into == (now.month - anchor + 12) % 3
    IN  abs - into + 3

\* First and last day of the three months starting at absolute month abs.
PeriodFrom(abs) ==
    [startDate |-> [y |-> abs \div 12, m |-> (abs % 12) + 1, d |-> 1],
     endDate |-> [y |-> (abs + 2) \div 12, m |-> ((abs + 2) % 12) + 1,
                  d |-> DaysInMonth((abs + 2) \div 12, ((abs + 2) % 12) + 1)]]

\* C22: the range returned is the anchor-aligned three-month period right
\* after the one containing today, with the right year on both ends.
C22_NextPeriodAfterToday ==
    RangeComputed =>
        LET expected == PeriodFrom(NextPeriodMonth(today, Q1Start(configA2)))
        IN  /\ startDate = expected.startDate
            /\ endDate = expected.endDate

\* The cell is empty, holds a letter, or holds a whole number outside 1..12.
HasLetter(chars) == \E k \in 1..Len(chars) : chars[k] = "a"
IsWholeNumber(chars) ==
    /\ Len(chars) >= 1
    /\ \A k \in 1..Len(chars) : IsDigit(chars[k]) \/ (k = 1 /\ chars[k] = "-")
    /\ \E k \in 1..Len(chars) : IsDigit(chars[k])
InvalidAnchor(chars) ==
    \/ chars = <<>>
    \/ HasLetter(chars)
    \/ IsWholeNumber(chars) /\ parseInt(chars).val \notin Months

\* C23: with an empty, non-numeric or out-of-range Config!A2 the range
\* returned is the one returned for anchor month 1.
C23_InvalidAnchorIsJanuary ==
    (RangeComputed /\ InvalidAnchor(configA2)) =>
        /\ startDate = QuarterRange(today, 1).startDate
        /\ endDate = QuarterRange(today, 1).endDate

\* C30: the range starts on the 1st of a month congruent to the anchor month
\* modulo 3 and ends on the last day of the month two months later, which
\* lies in the start's year or the year after.
C30_ThreeWholeMonths ==
    RangeComputed =>
        LET abs == startDate.y * 12 + startDate.m - 1
        IN  /\ startDate.d = 1
            /\ startDate.m \in Months
            /\ (startDate.m - Q1Start(configA2) + 12) % 3 = 0
            /\ endDate = PeriodFrom(abs).endDate
            /\ DayNumber(startDate) <= DayNumber(endDate)
            /\ endDate.y \in {startDate.y, startDate.y + 1}

\* A range for an anchor month other than January that starts in one year
\* and ends in February of a leap year.
C30_Witness ==
    /\ RangeComputed
    /\ Q1Start(configA2) # 1
    /\ endDate.y = startDate.y + 1
    /\ endDate.m = 2
    /\ endDate.d = 29

\* ------------------------------------------------------- blackout edits
\* handleBlackoutEdit has returned for an edit of data cells of the Blackout
\* Dates sheet.
DataEditHandled ==
    /\ editEv.made
    /\ ~editEv.pending
    /\ editEv.sheet = "Blackout Dates"
    /\ editEv.col >= 2

\* The session's user is an admin, or is the volunteer of the sheet row.
MayEditRow(row) ==
    /\ sessionUser # Blank
    /\ \/ \E k \in 1..Len(configC2) : LowerTrim(configC2[k]) = LowerTrim(sessionUser)
       \/ /\ rolesEmail[BoNameOf(row)] # Blank
          /\ LowerTrim(rolesEmail[BoNameOf(row)]) = LowerTrim(sessionUser)

\* C24: after the handler has run, every edited data cell of a row the user
\* may not edit holds its value from before the edit, and every edited data
\* cell of a row the user may edit holds the new value.
C24_OnlyOwnRowOrAdmin ==
    DataEditHandled =>
        \A row \in EditedDataRows(editEv) :
            IF MayEditRow(row)
            THEN boCells[row - 1][editEv.col - 1] = editEv.value
            ELSE boCells[row - 1][editEv.col - 1] = boBefore[row - 1][editEv.col - 1]


\* ---------------------------------------------- claims: Schedule History
\* The history rows whose first cell is the date of Schedule row k.
RowsFor(k) ==
    {j \in 1..Len(historySheet) :
        historySheet[j].isDate /\ historySheet[j].date = scheduleData[k].date}

\* C25: copyScheduleToHistory overwrites rather than accumulates: after any
\* number of runs on an unchanged Schedule, Schedule History holds each
\* Schedule date row exactly once, no row with the same date from an earlier
\* copy remains, and a second run leaves the history of the first.
C25_CopyOverwrites ==
    copies >= 1 =>
        /\ \A k \in 2..Len(scheduleData) :
               /\ Cardinality(RowsFor(k)) = 1
               /\ \A j \in RowsFor(k) : historySheet[j] = scheduleData[k]
        /\ copies >= 2 => historySheet = historyFirst

\* ------------------------------------------- claims: role eligibility
\* The names whose checkbox in role column c of the Roles sheet is TRUE.
TickedFor(c) ==
    {rolesData[k][1] : k \in {j \in 1..Len(rolesData) : rolesData[j][c + 1] = TRUE}}

\* C31: every non-empty cell the scheduler wrote for a role holds a volunteer
\* whose checkbox for that role is ticked on the Roles sheet, and a role
\* nobody is ticked for is left empty on every date.
C31_RoleEligibility ==
    \A d \in DateIdx : \A c \in RoleIdx :
        scanLog[d][c].done =>
            /\ schedule[d][c] # Blank => schedule[d][c] \in TickedFor(c)
            /\ TickedFor(c) = {} => schedule[d][c] = Blank

\* A finished run with a role nobody is ticked for, and a role that leaves
\* out a volunteer and has a filled cell.
C31_Witness ==
    /\ pc = "done"
    /\ \E c \in RoleIdx : TickedFor(c) = {}
    /\ \E c \in RoleIdx : \E d \in DateIdx :
          /\ schedule[d][c] # Blank
          /\ Names \ TickedFor(c) # {}

\* -------------------------------- claims: scheduler and classifier agree
\* highlightConflicts has computed its flags for the scheduler's grid.
FlagsComputed == pc = "done" /\ hcPc # "idle"

\* The volunteer of cell (d, c) holds a floating role on date d.
HoldsFloatingOn(d, c) ==
    \E c2 \in RoleIdx : Floating(c2) /\ schedule[d][c2] = schedule[d][c]

\* C32: on a grid the scheduler produced with a symmetric pairing map, the
\* classifier flags no cell as consecutive-week and none as couple conflict,
\* and flags a cell as same-day duplicate only if its volunteer holds a
\* floating role on that date.
C32_SchedulerClassifierAgree ==
    (FlagsComputed /\ ValidPairing) =>
        \A d \in DateIdx : \A c \in RoleIdx :
            /\ ~consecWeekDup[d][c]
            /\ ~coupleConflict[d][c]
            /\ sameDayDup[d][c] => HoldsFloatingOn(d, c)

\* The flags are computed for a grid in which a paired volunteer serves, a
\* volunteer serves on two dates, and a same-day duplicate is flagged.
C32_Witness ==
    /\ FlagsComputed
    /\ ValidPairing
    /\ \E d \in DateIdx : \E c \in RoleIdx :
          schedule[d][c] # Blank /\ couplesMap[schedule[d][c]] # Blank
    /\ \E d \in DateIdx : \E c \in RoleIdx : sameDayDup[d][c]
    /\ \E c \in RoleIdx : schedule[1][c] # Blank /\ schedule[1][c] \in ServedOn(3)

\* ------------------------------------------------- claims: pairing map
\* C33: for every content of the Couples sheet the map getCouplesMap builds
\* is symmetric: whenever map[a] = b then map[b] = a.
C33_PairingSymmetric ==
    pc = "done" =>
        \A a \in MapKeys : couplesMap[a] # Blank => couplesMap[couplesMap[a]] = a

\* ------------------------------------------------- claims: web app guard
\* A request has just been handled.
Handled == reqCount' = reqCount + 1

\* All four parameters are present, the action is confirm or decline, the
\* Schedule has a cell for the role and the date, and it holds the name.
Acceptable(req) ==
    /\ req.action \in {"confirm", "decline"}
    /\ req.name \notin {Undefined, Blank}
    /\ req.role \notin {Undefined, Blank}
    /\ req.date # <<>>
    /\ \E d \in 1..GridRows : \E c \in 1..GridCols :
          /\ ScheduleHeaders[c + 1] = req.role
          /\ dateColumn[d].isDate
          /\ FormatDate(dateColumn[d].date) = req.date
          /\ schedule[d][c] = req.name

\* C34: a request that misses a parameter, names another action, or names a
\* role and date with no cell or a cell holding another name, gets an error
\* or warning page, changes no background and sends no email.
C34_WebGuard ==
    [][(Handled /\ ~Acceptable(request')) =>
          /\ response' \in {"Error", "Warning"}
          /\ backgrounds' = backgrounds
          /\ mailsSent' = mailsSent]_vars

\* A complete confirm or decline for an existing cell that holds another
\* name was answered with the warning page and left the cell unmarked.
C34_Witness ==
    /\ reqCount = 1
    /\ response = "Warning"
    /\ request.role = "Lead"
    /\ request.date = FormatDate(GridSundays[1])
    /\ request.name # schedule[1][1]
    /\ backgrounds[1][1] = NoColor

\* ------------------------------------- claims: highlights and web marks
\* highlightConflicts, or highlightOnePerson, has just finished.
ConflictsFinish == hcPc = "painted" /\ hcPc' = "restored"
OnePersonFinish == hopPc = "painted" /\ hopPc' = "restored"

\* C35: when highlightConflicts finishes, no data cell of the Schedule sheet
\* has a background colour: the conflict colours are gone, and so is any
\* confirm or decline mark the web app had set.
C35_AllBackgroundsCleared ==
    [][ConflictsFinish =>
          \A d \in DOMAIN schedule : \A c \in DOMAIN schedule[d] :
              backgrounds'[d][c] = NoColor]_vars

\* The first highlightConflicts call has finished after painting a conflict;
\* the web app had marked a cell before the call began; no cell is coloured.
C35_Witness ==
    /\ hcPc = "restored"
    /\ hcRun = 1
    /\ hopPc = "idle"
    /\ response \in {"Confirmed!", "Declined"}
    /\ intervalOf = <<1, 1, "idle", "idle">>
    /\ \E d \in DOMAIN schedule : \E c \in DOMAIN schedule[d] :
          hcFirst.colors[d][c] # NoColor
    /\ \A d \in DOMAIN schedule : \A c \in DOMAIN schedule[d] :
          backgrounds[d][c] = NoColor

\* The mark the web app wrote on cell (d, c) during the display interval
\* that is now ending, NoColor if it wrote none.
MarkedSince(d, c) ==
    IF intervalOf = IntervalId THEN intervalMark[d][c] ELSE NoColor

\* C36: a confirm or decline accepted while highlightConflicts or
\* highlightOnePerson is between painting and restoring is not lost: when the
\* highlight function finishes, the cell still carries that mark.
C36_MarksSurviveHighlight ==
    [][(ConflictsFinish \/ OnePersonFinish) =>
          \A d \in DOMAIN schedule : \A c \in DOMAIN schedule[d] :
              MarkedSince(d, c) # NoColor => backgrounds'[d][c] = MarkedSince(d, c)]_vars

\* ------------------------------------------------------ claims: the log
\* C37: when every caller's logAction has returned, the Logs sheet holds, on
\* top, one complete row (timestamp, description, person) per call, and
\* below them the earlier entries unchanged, whichever way the steps of the
\* calls interleaved.
C37_OneCompleteRowPerCall ==
    (\A p \in Callers : logPc[p] = "done") =>
        /\ Len(logRows) >= NumCallers
        /\ \A p \in Callers : \E k \in 1..NumCallers : logRows[k] = CallRow(p)
        /\ \A k \in (NumCallers + 1)..Len(logRows) : logRows[k] = OldRow

====
